---- MODULE Spec2Model ----
(***************************************************************************)
(* Model of gl-lookup-func/function_app.py.                                *)
(*                                                                         *)
(* The import-row builder: _make_reference, _fmt_amount, _coalesce,        *)
(* _invoice_number, _iter_import_rows and the CSV writing loops of         *)
(* import_csv and submit_report.                                           *)
(*                                                                         *)
(* The reference ledger and the department resolver: _split_code_and_desc, *)
(* _load_rows, _normalize_key, _load_department_entries,                   *)
(* _load_dept_email_overrides, _department_name_for_code,                  *)
(* _map_department_name_to_code, orgchart_lookup, orgchart_lookup_upn and  *)
(* the cache of expense_codes.                                             *)
(*                                                                         *)
(* Python strings are sequences of one-character strings, so that strip(), *)
(* slicing and concatenation are computed character by character.  The     *)
(* only whitespace character of the alphabet is " ".                       *)
(***************************************************************************)
EXTENDS Integers, Sequences, FiniteSets, TLC

VARIABLES
    mr_base,      \* _make_reference: argument base_reference
    mr_code,      \* _make_reference: argument original_account_code
    mr_gl,        \* _make_reference: argument gl_override
    mr_ref,       \* _make_reference: returned string
    mr_pc,        \* "call" before the call, "done" after it returned
    req,          \* the HTTP request: kind of body, parsed JSON, query string
    clock_today,  \* date.today() of the process
    pc,           \* "call", then the name of the handler that has run
    rows,         \* the rows _iter_import_rows yielded to the handler
    raised,       \* TRUE when _iter_import_rows raised out of the handler
    csv_text,     \* output.getvalue(): the records written, in order
    status,       \* HTTP status of the response (500: unhandled exception)
    line_count,   \* submit_report: line_count
    missing_gl_count, \* submit_report: missing_gl_count
    amount_total, \* submit_report: amount_total, in thousandths
    ledger,       \* expense_codes.csv on disk (CSV_PATH)
    env_overrides, \* os.getenv("ORGCHART_DEPT_EMAIL_OVERRIDES")
    ROWS,         \* the global _ROWS
    DEPT_ENTRIES, \* the global _DEPT_ENTRIES
    DEPT_EMAIL_OVERRIDES, \* the global _DEPT_EMAIL_OVERRIDES
    load_count,   \* how often each source has been read by a loader
    d_pc,         \* "call" before a call of the resolver side, "done" after
    d_call,       \* the call: its operation and arguments
    d_ret,        \* what the call returned
    th            \* the threads of concurrent first calls of a loader

refVars == <<mr_base, mr_code, mr_gl, mr_ref, mr_pc>>

importVars == <<req, clock_today, pc, rows, raised, csv_text, status, line_count,
                missing_gl_count, amount_total>>

deptVars == <<ledger, env_overrides, ROWS, DEPT_ENTRIES, DEPT_EMAIL_OVERRIDES,
              load_count, d_pc, d_call, d_ret, th>>

vars == <<mr_base, mr_code, mr_gl, mr_ref, mr_pc, req, clock_today,
          pc, rows, raised,
          csv_text, status, line_count, missing_gl_count, amount_total,
          ledger, env_overrides, ROWS, DEPT_ENTRIES, DEPT_EMAIL_OVERRIDES,
          load_count, d_pc, d_call, d_ret, th>>

----------------------------------------------------------------------------
(* The module globals of lines 31-34 *)

\* a global that is None
NoneSlot == [set |-> FALSE, value |-> <<>>]

\* a global that holds a value
Slot(v) == [set |-> TRUE, value |-> v]

\* no file at CSV_PATH
MissingFile == [exists |-> FALSE, headers |-> <<>>, records |-> <<>>]

\* the environment variable is not set
UnsetEnv == [set |-> FALSE, raw |-> <<>>, ok |-> FALSE, value |-> [t |-> "null"]]

NoLoads == [rows |-> 0, entries |-> 0, overrides |-> 0]

\* the resolver side of a process in which nothing of it has run
DeptIdle ==
    /\ ledger = MissingFile
    /\ env_overrides = UnsetEnv
    /\ ROWS = NoneSlot
    /\ DEPT_ENTRIES = NoneSlot
    /\ DEPT_EMAIL_OVERRIDES = NoneSlot
    /\ load_count = NoLoads
    /\ d_pc = "idle"
    /\ d_call = [op |-> "none"]
    /\ d_ret = [op |-> "none"]
    /\ th = <<>>

----------------------------------------------------------------------------
(* Bounds of the model *)

\* longest base reference tried (the limit of a reference is RefLimit)
MaxBaseLen == 42

\* longest original account code tried
MaxCodeLen == 37

----------------------------------------------------------------------------
(* Python string primitives *)

Max(a, b) == IF a >= b THEN a ELSE b

Min(a, b) == IF a <= b THEN a ELSE b

\* n copies of the character c
Rep(c, n) == [i \in 1..n |-> c]

\* s[:n] for n >= 0
Take(s, n) == SubSeq(s, 1, Min(n, Len(s)))

IsSpace(c) == c = " "

\* str.lstrip()
RECURSIVE LStrip(_)
LStrip(s) ==
    IF s = <<>> THEN <<>>
    ELSE IF IsSpace(Head(s)) THEN LStrip(Tail(s))
    ELSE s

\* str.rstrip()
RECURSIVE RStrip(_)
RStrip(s) ==
    IF s = <<>> THEN <<>>
    ELSE IF IsSpace(s[Len(s)]) THEN RStrip(SubSeq(s, 1, Len(s) - 1))
    ELSE s

\* str.strip()
Strip(s) == RStrip(LStrip(s))

\* s.endswith(t)
EndsWith(s, t) ==
    /\ Len(t) <= Len(s)
    /\ SubSeq(s, Len(s) - Len(t) + 1, Len(s)) = t

----------------------------------------------------------------------------
(* _make_reference *)

\* the longest reference _make_reference returns (the literal 40)
RefLimit == 40

\* the literal " ACCT=" of the f-string
AcctTag == <<" ", "A", "C", "C", "T", "=">>

\* suffix = f" ACCT={original_account_code}".strip()
RefSuffix(code) == Strip(AcctTag \o code)

\* the same without the final ref[:40]
MakeReferenceNoFinalCut(base, code, gl) ==
    LET ref0 == Strip(base)
        suffix == RefSuffix(code)
        keep == Max(0, RefLimit - Len(suffix))
    IN  IF gl /= <<>> /\ code /= <<>>
        THEN IF Len(ref0) + Len(suffix) <= RefLimit
             THEN Strip(ref0 \o suffix)
             ELSE Strip(Take(RStrip(Take(ref0, keep)) \o suffix, RefLimit))
        ELSE ref0

\* _make_reference(base_reference, original_account_code, gl_override);
\* an absent (None) argument behaves as the empty string <<>>
MakeReference(base, code, gl) ==
    LET ref0 == Strip(base)
        suffix == RefSuffix(code)
        keep == Max(0, RefLimit - Len(suffix))
        ref == IF gl /= <<>> /\ code /= <<>>
               THEN IF Len(ref0) + Len(suffix) <= RefLimit
                    THEN Strip(ref0 \o suffix)
                    ELSE Strip(Take(RStrip(Take(ref0, keep)) \o suffix, RefLimit))
               ELSE ref0
    IN  Take(ref, RefLimit)

----------------------------------------------------------------------------
(* JSON values as Python sees them *)

\* None, and the value of dict.get for a missing key
JNull == [t |-> "null"]

\* a str
JStr(s) == [t |-> "str", s |-> s]

\* a number, held in thousandths (42.5 is 42500); the model's numbers
\* have at most three decimals
JNum(m) == [t |-> "num", n |-> m]

\* an empty dict {} where a list or a scalar is expected
JEmptyObj == [t |-> "obj"]

\* bool(v): the truth value Python's `or` and `if` use
Truthy(v) ==
    CASE v.t = "str" -> v.s /= <<>>
      [] v.t = "num" -> v.n /= 0
      [] v.t = "list" -> v.elems /= <<>>
      [] v.t = "obj" -> DOMAIN v /= {"t"}
      [] OTHER -> FALSE

Digits == <<"0", "1", "2", "3", "4", "5", "6", "7", "8", "9">>

Digit(d) == Digits[d + 1]

IsDigit(c) == \E i \in 1..Len(Digits) : Digits[i] = c

DigitVal(c) == (CHOOSE i \in 1..Len(Digits) : Digits[i] = c) - 1

\* decimal digits of a natural number
RECURSIVE NatStr(_)
NatStr(n) == IF n < 10 THEN <<Digit(n)>> ELSE NatStr(n \div 10) \o <<Digit(n % 10)>>

\* zero-padded to two and four digits (%02d, strftime %m %d %Y)
Pad2(n) == <<Digit((n \div 10) % 10), Digit(n % 10)>>

Pad4(n) == Pad2(n \div 100) \o Pad2(n % 100)

AllDigits(s) == \A i \in 1..Len(s) : IsDigit(s[i])

\* value of a string of digits (0 for the empty string)
RECURSIVE NatVal(_)
NatVal(s) == IF s = <<>> THEN 0 ELSE NatVal(SubSeq(s, 1, Len(s) - 1)) * 10 + DigitVal(s[Len(s)])

\* the fraction digits of thousandths with trailing zeros dropped, as repr
\* prints them
RECURSIVE DropTrailingZeros(_)
DropTrailingZeros(s) ==
    IF s /= <<>> /\ s[Len(s)] = "0" THEN DropTrailingZeros(SubSeq(s, 1, Len(s) - 1)) ELSE s

Abs(n) == IF n < 0 THEN -n ELSE n

\* str(v) of a number: an int prints its digits, a float its shortest repr
NumStr(m) ==
    (IF m < 0 THEN <<"-">> ELSE <<>>)
    \o NatStr(Abs(m) \div 1000)
    \o (IF m % 1000 = 0 THEN <<>>
        ELSE <<".">> \o DropTrailingZeros(<<Digit((Abs(m) \div 100) % 10),
                                            Digit((Abs(m) \div 10) % 10),
                                            Digit(Abs(m) % 10)>>))

\* str(v)
PyStr(v) ==
    CASE v.t = "str" -> v.s
      [] v.t = "num" -> NumStr(v.n)
      [] v.t = "null" -> <<"N", "o", "n", "e">>
      [] v.t = "list" -> <<"[", ".", ".", ".", "]">>
      [] OTHER -> <<"{", "}">>

\* _coalesce(*values): the first value that is not None and whose str() is
\* not blank, as str (not stripped); "" when there is none
RECURSIVE Coalesce(_)
Coalesce(values) ==
    IF values = <<>> THEN <<>>
    ELSE LET v == Head(values)
         IN  IF v.t = "null" THEN Coalesce(Tail(values))
             ELSE IF Strip(PyStr(v)) = <<>> THEN Coalesce(Tail(values))
             ELSE PyStr(v)

\* position of the first "." of s, 0 when there is none
DotIndex(s) ==
    IF \E i \in 1..Len(s) : s[i] = "."
    THEN CHOOSE i \in 1..Len(s) : s[i] = "." /\ \A j \in 1..(i - 1) : s[j] /= "."
    ELSE 0

\* float(value): [ok |-> TRUE, n |-> thousandths], or ok = FALSE where
\* Python raises TypeError (None, list, dict) or ValueError (a str that is
\* no number).  A str is stripped, may carry a sign, and is digits with at
\* most one point; the input sets hold no exponent, "inf", "nan" or "_"
\* forms and no str with more than three decimals.
PyFloat(v) ==
    CASE v.t = "num" -> [ok |-> TRUE, n |-> v.n]
      [] v.t = "str" ->
            LET t == Strip(v.s)
                signed == t /= <<>> /\ Head(t) \in {"-", "+"}
                neg == t /= <<>> /\ Head(t) = "-"
                body == IF signed THEN Tail(t) ELSE t
                dot == DotIndex(body)
                ip == IF dot = 0 THEN body ELSE SubSeq(body, 1, dot - 1)
                fp == IF dot = 0 THEN <<>> ELSE SubSeq(body, dot + 1, Len(body))
                fp3 == Take(fp \o <<"0", "0", "0">>, 3)
                good == /\ AllDigits(ip)
                        /\ AllDigits(fp)
                        /\ Len(ip) + Len(fp) > 0
                mag == NatVal(ip) * 1000 + NatVal(fp3)
            IN  IF good THEN [ok |-> TRUE, n |-> IF neg THEN -mag ELSE mag]
                ELSE [ok |-> FALSE, n |-> 0]
      [] OTHER -> [ok |-> FALSE, n |-> 0]

\* f"{x:.2f}" of a float of m thousandths: rounded to the nearest cent, the
\* sign kept even when the cents round to zero.  The input sets hold no
\* amount whose thousandths digit is 5, where the binary value decides.
Fmt2f(m) ==
    LET cents == (Abs(m) + 5) \div 10
    IN  (IF m < 0 THEN <<"-">> ELSE <<>>)
        \o NatStr(cents \div 100) \o <<".">> \o Pad2(cents % 100)

\* the same with the except branch returning "0.00"
FmtAmountZeroOnError(value) ==
    IF PyFloat(value).ok THEN Fmt2f(PyFloat(value).n) ELSE <<"0", ".", "0", "0">>

\* _fmt_amount(value)
FmtAmount(value) ==
    IF PyFloat(value).ok THEN Fmt2f(PyFloat(value).n) ELSE <<>>

----------------------------------------------------------------------------
(* Calendar dates: [y, m, d] *)

IsLeap(y) == (y % 4 = 0 /\ y % 100 /= 0) \/ y % 400 = 0

DaysInMonth(y, m) ==
    IF m = 2 THEN (IF IsLeap(y) THEN 29 ELSE 28)
    ELSE IF m \in {4, 6, 9, 11} THEN 30
    ELSE 31

NextDay(dt) ==
    IF dt.d < DaysInMonth(dt.y, dt.m) THEN [dt EXCEPT !.d = dt.d + 1]
    ELSE IF dt.m < 12 THEN [y |-> dt.y, m |-> dt.m + 1, d |-> 1]
    ELSE [y |-> dt.y + 1, m |-> 1, d |-> 1]

\* dt + timedelta(days = n), n >= 0
RECURSIVE AddDays(_, _)
AddDays(dt, n) == IF n = 0 THEN dt ELSE AddDays(NextDay(dt), n - 1)

\* dt.strftime("%m/%d/%Y")
StrfMDY(dt) == Pad2(dt.m) \o <<"/">> \o Pad2(dt.d) \o <<"/">> \o Pad4(dt.y)

\* days added to today for the due date
DueDays == 7

----------------------------------------------------------------------------
(* _invoice_number *)

UpperLetters == <<"A", "B", "C", "D", "E", "F", "G", "H", "I", "J", "K", "L", "M", "N", "O", "P", "Q", "R", "S", "T", "U", "V", "W", "X", "Y", "Z">>

LowerLetters == <<"a", "b", "c", "d", "e", "f", "g", "h", "i", "j", "k", "l", "m", "n", "o", "p", "q", "r", "s", "t", "u", "v", "w", "x", "y", "z">>

LowerChar(c) ==
    IF \E i \in 1..Len(UpperLetters) : UpperLetters[i] = c
    THEN LowerLetters[CHOOSE i \in 1..Len(UpperLetters) : UpperLetters[i] = c]
    ELSE c

\* str.lower()
Lower(s) == [i \in 1..Len(s) |-> LowerChar(s[i])]

\* str.replace(" ", "")
RECURSIVE RemoveSpaces(_)
RemoveSpaces(s) ==
    IF s = <<>> THEN <<>>
    ELSE IF Head(s) = " " THEN RemoveSpaces(Tail(s))
    ELSE <<Head(s)>> \o RemoveSpaces(Tail(s))

\* _INVOICE_PREFIX_MAP.get(key, "EXP")
InvoicePrefix(key) ==
    CASE key = <<"r", "e", "c", "e", "i", "p", "t">> -> <<"E", "X", "P">>
      [] key = <<"b", "o", "o", "t", "s">> -> <<"E", "X", "P">>
      [] key = <<"p", "e", "r", "d", "i", "e", "m">> -> <<"P", "E", "R", " ", "D", "I", "E", "M">>
      [] key = <<"m", "i", "l", "e", "a", "g", "e">> -> <<"M", "I", "L">>
      [] OTHER -> <<"E", "X", "P">>

\* _invoice_number(item_type, today)
InvoiceNumber(item_type, today) ==
    LET key == Lower(Strip(RemoveSpaces(item_type)))
    IN  InvoicePrefix(key) \o <<" ">> \o Pad2(today.m) \o <<"-">> \o Pad4(today.y)

----------------------------------------------------------------------------
(* _IMPORTFORMAT_FIELDS and the rows of _iter_import_rows *)

IMPORTFORMAT_FIELDS ==
    << "GL Division", "GL Department", "GL Account", "GL Activity",
       "Reference", "Amount", "Vendor", "Organization Name",
       "First Name", "Last Name", "Joint Name", "Address Line 1",
       "Address Line 2", "Address Line 3", "City", "State", "ZIP",
       "Bank Account", "Due Date", "Invoice", "Customer", "Payment Type",
       "1099", "Type", "Invoice Date", "GL Post Date", "Discount",
       "Sales Tax", "Additional Charge 1 Code",
       "Additional Charge 1 Amount", "Addl Chg 1 Taxable",
       "Additional Charge 2 Code", "Additional Charge 2 Amount",
       "Addl Chg 2 Taxable", "Use Tax 1 Code", "Use Tax 1 Amount",
       "Use Tax 2 Code", "Use Tax 2 Amount", "Use Tax 3 Code",
       "Use Tax 3 Amount", "Use Tax 4 Code", "Use Tax 4 Amount",
       "Taxable", "Apply Addl Chg 1", "Apply Addl Chg 2",
       "Distribute Tax", "Distribute Addl Chg 1",
       "Distribute Addl Chg 2", "AP GL Division", "AP GL Account",
       "Dispute", "Separate Payment", "Times To Post", "Invoice Type",
       "Extended Reference", "Authorization Type", "Credit Card",
       "Paid Vendor", "Charge Dt", "BU Project",
       "GL Distribution Reference" >>

\* number of columns of the import format
FieldCount == 61

FieldSet == { IMPORTFORMAT_FIELDS[i] : i \in 1..Len(IMPORTFORMAT_FIELDS) }

\* row = {field: "" for field in _IMPORTFORMAT_FIELDS}
BlankRow == [f \in FieldSet |-> <<>>]

\* dict.get(key): None when the key is missing
Get(obj, key) == IF key \in DOMAIN obj THEN obj[key] ELSE JNull

\* isinstance(v, dict), isinstance(v, list), isinstance(v, str)
IsDict(v) == v.t = "obj"

IsList(v) == v.t = "list"

IsStr(v) == v.t = "str"

\* a JSON array
JList(elems) == [t |-> "list", elems |-> elems]

\* a str holding JSON text: s is the text, ok whether json.loads accepts
\* it, value what json.loads returns when it does (the json library is not
\* modelled character by character)
JText(s, ok, value) == [t |-> "str", s |-> s, ok |-> ok, value |-> value]

\* json.loads(text) raises on a str that is not JSON
JsonLoadsRaises(text) == ~("ok" \in DOMAIN text /\ text.ok)

JsonLoads(text) == text.value

\* the category labels of column 5
TrainingLabel == <<"T", "R", "A", "I", "N", "I", "N", "G", "/", "E", "D", "U", "C", "A", "T", "I", "O", "N">>

ExpensesLabel == <<"E", "X", "P", "E", "N", "S", "E", "S", " ", "/", " ", "M", "I", "L", "E", "A", "G", "E">>

TrainingActivity == <<"7", "7", "0">>

\* the same without the strip() of line 1365
CategoryLabelNoStrip(activity) ==
    IF activity = TrainingActivity THEN TrainingLabel ELSE ExpensesLabel

\* "TRAINING/EDUCATION" if str(activity).strip() == "770" else "EXPENSES / MILEAGE"
CategoryLabel(activity) ==
    IF Strip(activity) = TrainingActivity THEN TrainingLabel ELSE ExpensesLabel

\* f"OVERRIDE={gl_override}; ORIGINAL_ACCT={original_account_code}"
OverrideNote(gl_override, original_account_code) ==
    <<"O", "V", "E", "R", "R", "I", "D", "E", "=">> \o gl_override \o <<";", " ", "O", "R", "I", "G", "I", "N", "A", "L", "_", "A", "C", "C", "T", "=">> \o original_account_code

\* the same, taken whenever the item has a description
ExtendedNoteAlways(item, gl_override, original_account_code) ==
    IF gl_override /= <<>> /\ original_account_code /= <<>>
    THEN Coalesce(<<Get(item, "description"),
                    JStr(OverrideNote(gl_override, original_account_code))>>)
    ELSE Coalesce(<<Get(item, "description")>>)

\* extended_ref of lines 1352-1357
ExtendedNote(item, gl_override, original_account_code) ==
    IF gl_override /= <<>> /\ original_account_code /= <<>>
    THEN Coalesce(<<Get(item, "description"),
                    JStr(OverrideNote(gl_override, original_account_code))>>)
    ELSE <<>>

\* lines 1379-1382
ExtendedReference(reference, extended_ref) ==
    IF extended_ref /= <<>> THEN reference \o <<" ", "|", " ">> \o extended_ref ELSE reference

\* division = _coalesce(payload.get("division"), "0000")
DivisionOf(payload) == Coalesce(<<Get(payload, "division"), JStr(<<"0", "0", "0", "0">>)>>)

\* the same with the default taken whatever the payload holds
VendorOfFixed(payload) == <<"C", "O", "R", "E">>

\* vendor = _coalesce(payload.get("vendor"), "CORE")
VendorOf(payload) == Coalesce(<<Get(payload, "vendor"), JStr(<<"C", "O", "R", "E">>)>>)

\* the values computed once per call, lines 1301-1313
RowContext(payload, today) ==
    LET requester == IF Truthy(Get(payload, "requester"))
                     THEN Get(payload, "requester") ELSE JEmptyObj
    IN  [division |-> DivisionOf(payload),
         vendor |-> VendorOf(payload),
         today |-> today,
         today_s |-> StrfMDY(today),
         due_s |-> StrfMDY(AddDays(today, DueDays)),
         org_name |-> Coalesce(<<Get(requester, "organizationName")>>),
         first_name |-> Coalesce(<<Get(requester, "firstName")>>),
         last_name |-> Coalesce(<<Get(requester, "lastName")>>)]

\* requester.get(...) on a requester that is truthy and no dict raises
\* AttributeError (line 1311)
RequesterRaises(payload) ==
    /\ Truthy(Get(payload, "requester"))
    /\ ~IsDict(Get(payload, "requester"))

\* the row built for one line of one item, lines 1325-1329 and 1345-1382
RowOfLine(ctx, item, line) ==
    LET dept == Coalesce(<<Get(item, "departmentCode")>>)
        base_reference == Coalesce(<<Get(item, "reference")>>)
        gl_override == Coalesce(<<Get(item, "glAccountOverride")>>)
        item_type == Coalesce(<<Get(item, "type"), JStr(<<"R", "e", "c", "e", "i", "p", "t">>)>>)
        activity == Coalesce(<<Get(line, "activityCode"), Get(item, "activityCode")>>)
        original_account_code ==
            Coalesce(<<Get(line, "accountCode"), Get(item, "accountCode")>>)
        reference == MakeReference(base_reference, original_account_code, gl_override)
    IN  [BlankRow EXCEPT
            !["GL Division"] = ctx.division,
            !["GL Department"] = dept,
            !["GL Account"] = IF gl_override /= <<>> THEN gl_override
                              ELSE original_account_code,
            !["GL Activity"] = activity,
            !["Reference"] = CategoryLabel(activity),
            !["Amount"] = FmtAmount(Get(line, "amount")),
            !["Vendor"] = ctx.vendor,
            !["Organization Name"] = ctx.org_name,
            !["First Name"] = ctx.first_name,
            !["Last Name"] = ctx.last_name,
            !["Address Line 1"] = <<".">>,
            !["Due Date"] = ctx.due_s,
            !["Invoice"] = InvoiceNumber(item_type, ctx.today),
            !["Invoice Date"] = ctx.today_s,
            !["GL Post Date"] = ctx.today_s,
            !["Extended Reference"] =
                ExtendedReference(reference,
                    ExtendedNote(item, gl_override, original_account_code))]

\* the single line synthesized for an item without lines, lines 1333-1339
SyntheticLine(item) ==
    [t |-> "obj",
     amount |-> IF Truthy(Get(item, "amountTotal"))
                THEN Get(item, "amountTotal") ELSE Get(item, "amount"),
     activityCode |-> Get(item, "activityCode"),
     accountCode |-> Get(item, "accountCode")]

\* lines 1331-1339: the lines iterated for an item
LinesOf(item) ==
    LET lines == Get(item, "lines")
    IN  IF ~IsList(lines) \/ Len(lines.elems) = 0
        THEN <<SyntheticLine(item)>>
        ELSE lines.elems

\* the inner loop, lines 1341-1384: one row per line that is a dict
RECURSIVE RowsOfLines(_, _, _)
RowsOfLines(ctx, item, lines) ==
    IF lines = <<>> THEN <<>>
    ELSE IF ~IsDict(Head(lines)) THEN RowsOfLines(ctx, item, Tail(lines))
    ELSE <<RowOfLine(ctx, item, Head(lines))>> \o RowsOfLines(ctx, item, Tail(lines))

\* the outer loop, lines 1321-1384: items that are no dict are skipped
RECURSIVE RowsOfItems(_, _)
RowsOfItems(ctx, items) ==
    IF items = <<>> THEN <<>>
    ELSE IF ~IsDict(Head(items)) THEN RowsOfItems(ctx, Tail(items))
    ELSE RowsOfLines(ctx, Head(items), LinesOf(Head(items)))
         \o RowsOfItems(ctx, Tail(items))

\* lines 1315-1316: json.loads is reached, and raises
DraftRaises(payload) ==
    /\ Get(payload, "items") = JNull
    /\ IsStr(Get(payload, "draftItemsJson"))
    /\ JsonLoadsRaises(Get(payload, "draftItemsJson"))

\* lines 1315-1319: the list iterated
ItemsOf(payload) ==
    LET given == Get(payload, "items")
        items == IF given = JNull /\ IsStr(Get(payload, "draftItemsJson"))
                 THEN JsonLoads(Get(payload, "draftItemsJson"))
                 ELSE given
    IN  IF IsList(items) THEN items.elems ELSE <<>>

\* list(_iter_import_rows(payload)): the rows yielded, or raised = TRUE when
\* the generator raises (both raising statements come before the first
\* yield, so no row is yielded then)
IterImportRows(payload, today) ==
    IF RequesterRaises(payload) \/ DraftRaises(payload)
    THEN [raised |-> TRUE, rows |-> <<>>]
    ELSE [raised |-> FALSE,
          rows |-> RowsOfItems(RowContext(payload, today), ItemsOf(payload))]

----------------------------------------------------------------------------
(* The CSV written by import_csv and submit_report *)

\* csv.DictWriter.writerow(row): the cells of the row in fieldnames order
CsvRecord(row) ==
    [kind |-> "data",
     cells |-> [i \in 1..Len(IMPORTFORMAT_FIELDS) |-> row[IMPORTFORMAT_FIELDS[i]]]]

\* what csv.DictWriter.writeheader() would write
HeaderRecord == [kind |-> "header", cells |-> IMPORTFORMAT_FIELDS]

\* the loop preceded by writer.writeheader()
CsvTextWithHeader(rs) == <<HeaderRecord>> \o [i \in 1..Len(rs) |-> CsvRecord(rs[i])]

\* for row in _iter_import_rows(payload): writer.writerow(row)
CsvText(rs) == [i \in 1..Len(rs) |-> CsvRecord(rs[i])]

\* submit_report, lines 3126-3127
RECURSIVE MissingGlCount(_)
MissingGlCount(rs) ==
    IF rs = <<>> THEN 0
    ELSE (IF Strip(Head(rs)["GL Account"]) = <<>> THEN 1 ELSE 0) + MissingGlCount(Tail(rs))

\* submit_report, lines 3128-3131: float(row.get("Amount") or 0), summed
RECURSIVE AmountTotal(_)
AmountTotal(rs) ==
    IF rs = <<>> THEN 0
    ELSE LET cell == Head(rs)["Amount"]
             f == PyFloat(JStr(cell))
         IN  (IF cell /= <<>> /\ f.ok THEN f.n ELSE 0) + AmountTotal(Tail(rs))

\* submit_report, lines 3021-3039: the payload taken from the body
SubmitBodyPayload(r) ==
    CASE r.body = "object" -> r.parsed
      [] r.body = "array" ->
            [t |-> "obj", draftItemsJson |-> JText(<<"[", ".", ".", ".", "]">>, TRUE, r.parsed)]
      [] OTHER ->
            IF Strip(r.raw) /= <<>>
            THEN [t |-> "obj", draftItemsJson |-> JText(Strip(r.raw), FALSE, JNull)]
            ELSE JEmptyObj

\* submit_report, lines 3058-3073 for k = "draftItemsJson": the query value
\* is taken when the payload has no such key, or None or "" under it
SubmitPayload(r) ==
    LET p == SubmitBodyPayload(r)
        v == r.query_draft
        held == Get(p, "draftItemsJson")
    IN  IF /\ v.t = "str"
           /\ Strip(v.s) /= <<>>
           /\ (held = JNull \/ (held.t = "str" /\ held.s = <<>>))
        THEN [k \in DOMAIN p \cup {"draftItemsJson"} |->
                 IF k = "draftItemsJson" THEN v ELSE p[k]]
        ELSE p

----------------------------------------------------------------------------
(* Bounds and inputs of the import handlers *)

\* longest items list tried
MaxItems == 2

\* longest lines list tried
MaxLines == 2

\* sequences over S of length 0..n
SeqsUpTo(S, n) == UNION { [1..k -> S] : k \in 0..n }

Today0 == [y |-> 2026, m |-> 1, d |-> 7]

\* today: mid-month, a due date past the end of February in a common and a
\* leap year, and a due date in the next year
TodayVals ==
    { Today0,
      [y |-> 2026, m |-> 2, d |-> 25],
      [y |-> 2024, m |-> 2, d |-> 25],
      [y |-> 2025, m |-> 12, d |-> 28] }

\* the item of the end-to-end example of the specification
BasicItem ==
    [t |-> "obj", type |-> JStr(<<"r", "e", "c", "e", "i", "p", "t">>), departmentCode |-> JStr(<<"6", "2", "0">>),
     activityCode |-> JStr(<<"7", "7", "0">>), accountCode |-> JStr(<<"5", "5", "0", "0">>),
     amount |-> JNum(42500), reference |-> JStr(<<"c", "o", "n", "f", " ", "f", "e", "e">>)]

DivisionVals == { JNull, JStr(<<" ", " ">>), JStr(<<"0", "1", "0", "0">>) }

VendorVals == { JNull, JStr(<<"A", "C", "M", "E">>) }

RequesterVals ==
    { JNull,
      JStr(<<>>),
      JStr(<<"b", "o", "b">>),
      [t |-> "obj", firstName |-> JStr(<<"A", "n", "n">>), lastName |-> JStr(<<"L", "e", "e">>)] }

\* values a payload may hold for the dates and the address line, under keys
\* _iter_import_rows never reads
SuppliedDue == <<"1", "2", "/", "3", "1", "/", "2", "0", "3", "0">>

SuppliedInvoiceDate == <<"1", "2", "/", "2", "4", "/", "2", "0", "3", "0">>

SuppliedPostDate == <<"1", "2", "/", "2", "5", "/", "2", "0", "3", "0">>

SuppliedAddress == <<"1", " ", "M", "a", "i", "n", " ", "S", "t">>

ObjectRequest(p) ==
    [body |-> "object", parsed |-> p, raw |-> <<>>, query_draft |-> JNull]

\* family 1: the payload-level fields, over one basic item
HeaderPayloads ==
    { [t |-> "obj", division |-> dv, vendor |-> vn, requester |-> rq,
       items |-> JList(<<BasicItem>>)]
        : dv \in DivisionVals, vn \in VendorVals, rq \in RequesterVals }
    \cup
    { [t |-> "obj", division |-> dv, vendor |-> vn, requester |-> rq,
       dueDate |-> JStr(SuppliedDue), invoiceDate |-> JStr(SuppliedInvoiceDate),
       glPostDate |-> JStr(SuppliedPostDate), addressLine1 |-> JStr(SuppliedAddress),
       items |-> JList(<<BasicItem>>)]
        : dv \in DivisionVals, vn \in VendorVals, rq \in RequesterVals }

ValidDraft == JText(<<"[", "{", ".", ".", ".", "}", "]">>, TRUE, JList(<<BasicItem>>))

NonListDraft == JText(<<"{", "}">>, TRUE, JEmptyObj)

InvalidDraft == JText(<<"n", "o", "t", " ", "j", "s", "o", "n">>, FALSE, JNull)

\* family 2: where the items come from
ItemsHolderVals == { JNull, JStr(<<"x">>), JEmptyObj, JList(<<>>), JList(<<BasicItem>>) }

DraftVals == { JNull, ValidDraft, NonListDraft, InvalidDraft, JList(<<BasicItem>>) }

HolderPayloads ==
    { [t |-> "obj", items |-> it, draftItemsJson |-> dr]
        : it \in ItemsHolderVals, dr \in DraftVals }

AmountVals ==
    { JNull, JStr(<<>>), JStr(<<"a", "b", "c">>), JStr(<<"1", ",", "2", "3", "4", ".", "5", "0">>), JStr(<<"4", "2", ".", "5", "0">>),
      JStr(<<" ", "7", " ">>), JStr(<<"0">>), JNum(0), JNum(4), JNum(-4), JNum(1000),
      JNum(1996), JNum(42500) }

ActivityVals ==
    { JNull, JStr(<<" ", " ">>), JStr(<<"7", "7", "0">>), JStr(<<" ", "7", "7", "0", " ">>), JStr(<<"1", "0", "0">>), JNum(770000) }

AccountVals == { JNull, JStr(<<"5", "5", "0", "0">>) }

OverrideVals == { JNull, JStr(<<"6", "0", "0", "0">>) }

DescriptionVals == { JNull, JStr(<<"n", "o", "t", "e">>) }

ReferenceVals == { JNull, JStr(<<"c", "o", "n", "f", " ", "f", "e", "e">>), JStr(Rep("r", 38)) }

TypeVals ==
    { JNull, JStr(<<"P", "e", "r", " ", "D", "i", "e", "m">>), JStr(<<"m", "i", "l", "e", "a", "g", "e">>), JStr(<<"b", "o", "o", "t", "s">>), JStr(<<"R", "e", "c", "e", "i", "p", "t">>),
      JStr(<<"t", "a", "x", "i">>) }

\* family 3: the fields of an item without lines
PlainItems ==
    { [t |-> "obj", departmentCode |-> JStr(<<"6", "2", "0">>), reference |-> rf,
       glAccountOverride |-> ov, description |-> ds, activityCode |-> ac,
       accountCode |-> an, amount |-> am]
        : rf \in ReferenceVals, ov \in OverrideVals, ds \in DescriptionVals,
          ac \in ActivityVals, an \in AccountVals, am \in AmountVals }

\* family 4: the type of an item, and amountTotal beside amount
TypedItems ==
    { [t |-> "obj", departmentCode |-> JStr(<<"6", "2", "0">>), type |-> ty,
       activityCode |-> JStr(<<"7", "7", "0">>), accountCode |-> JStr(<<"5", "5", "0", "0">>),
       amount |-> am, amountTotal |-> at]
        : ty \in TypeVals, am \in { JNull, JNum(42500) },
          at \in { JNull, JNum(0), JStr(<<"a", "b", "c">>), JNum(7000) } }

\* family 5: the fields of a line, under an item with or without its own codes
ContentLines ==
    { [t |-> "obj", amount |-> am, activityCode |-> JStr(<<"1", "0", "0">>),
       accountCode |-> JStr(<<"5", "5", "0", "0">>)] : am \in AmountVals }
    \cup
    { [t |-> "obj", amount |-> JNum(1000), activityCode |-> ac, accountCode |-> an]
        : ac \in ActivityVals, an \in AccountVals \cup { JStr(<<" ">>) } }

LinedItems ==
    { [t |-> "obj", departmentCode |-> JStr(<<"6", "2", "0">>), reference |-> JStr(<<"c", "o", "n", "f", " ", "f", "e", "e">>),
       glAccountOverride |-> ov, description |-> ds, activityCode |-> ac,
       accountCode |-> an, amount |-> JNum(9000), lines |-> JList(<<ln>>)]
        : ov \in OverrideVals, ds \in DescriptionVals,
          ac \in { JNull, JStr(<<"7", "7", "0">>) }, an \in { JNull, JStr(<<"7", "0", "0", "0">>) },
          ln \in ContentLines }

\* family 6: the shape of the lists; the two lines differ in their amounts,
\* so the order of the rows shows
LineA ==
    [t |-> "obj", amount |-> JNum(1000), activityCode |-> JStr(<<"1", "0", "0">>),
     accountCode |-> JStr(<<"5", "5", "0", "0">>)]

LineB ==
    [t |-> "obj", amount |-> JNum(2000), activityCode |-> JStr(<<"7", "7", "0">>),
     accountCode |-> JStr(<<"5", "6", "0", "0">>)]

ShapeLines == { LineA, LineB }

\* lines that is missing, or a list of dicts
ShapeLineLists ==
    { JNull } \cup { JList(ls) : ls \in SeqsUpTo(ShapeLines, MaxLines) }

ShapeItem(ll) ==
    [t |-> "obj", departmentCode |-> JStr(<<"6", "2", "0">>), activityCode |-> JStr(<<"2", "0", "0">>),
     accountCode |-> JStr(<<"5", "7", "0", "0">>), amount |-> JNum(3000), lines |-> ll]

ShapeItems == { JStr(<<"x">>) } \cup { ShapeItem(ll) : ll \in ShapeLineLists }

\* lines that is no list, or a list holding an element that is no dict
OddLineLists ==
    { JStr(<<"x">>), JEmptyObj, JList(<<JStr(<<"x">>)>>), JList(<<LineA, JStr(<<"x">>)>>),
      JList(<<JStr(<<"x">>), LineB, JNull, LineA>>) }

OddItems == { ShapeItem(ll) : ll \in OddLineLists }

ShapePayloads ==
    { [t |-> "obj", items |-> JList(its)] : its \in SeqsUpTo(ShapeItems, MaxItems) }

\* family 7: bodies that are no JSON object, and the query string
OtherRequests ==
    { [body |-> "array", parsed |-> JList(<<BasicItem>>), raw |-> <<>>, query_draft |-> q]
        : q \in { JNull, ValidDraft } }
    \cup
    { [body |-> "invalid", parsed |-> JNull, raw |-> rw, query_draft |-> q]
        : rw \in { <<>>, <<"n", "o", "t", " ", "j", "s", "o", "n">> }, q \in { JNull, ValidDraft, InvalidDraft } }
    \cup
    { [body |-> "object", parsed |-> p, raw |-> <<>>, query_draft |-> q]
        : p \in { JEmptyObj,
                  [t |-> "obj", draftItemsJson |-> JStr(<<>>)],
                  [t |-> "obj", draftItemsJson |-> NonListDraft] },
          q \in { ValidDraft, InvalidDraft } }

Scenarios ==
    { [req |-> ObjectRequest(p), today |-> td] : p \in HeaderPayloads, td \in TodayVals }
    \cup
    { [req |-> ObjectRequest(p), today |-> Today0]
        : p \in HolderPayloads
               \cup { [t |-> "obj", items |-> JList(<<it>>)] : it \in PlainItems \cup TypedItems \cup LinedItems \cup OddItems }
               \cup ShapePayloads }
    \cup
    { [req |-> r, today |-> Today0] : r \in OtherRequests }

----------------------------------------------------------------------------
(* The handlers *)

RefIdle ==
    /\ mr_base = <<>>
    /\ mr_code = <<>>
    /\ mr_gl = <<>>
    /\ mr_ref = <<>>
    /\ mr_pc = "idle"

ImportIdle ==
    /\ req = ObjectRequest(JEmptyObj)
    /\ clock_today = Today0
    /\ pc = "idle"
    /\ rows = <<>>
    /\ raised = FALSE
    /\ csv_text = <<>>
    /\ status = 0
    /\ line_count = 0
    /\ missing_gl_count = 0
    /\ amount_total = 0

ImportInit ==
    /\ \E sc \in Scenarios : req = sc.req /\ clock_today = sc.today
    /\ pc = "call"
    /\ rows = <<>>
    /\ raised = FALSE
    /\ csv_text = <<>>
    /\ status = 0
    /\ line_count = 0
    /\ missing_gl_count = 0
    /\ amount_total = 0
    /\ RefIdle
    /\ DeptIdle

\* import_csv: 400 on a body that is no JSON; a body that is JSON but no
\* object has no .get, and an exception of _iter_import_rows is not caught
\* (the response is a 500)
ImportCsv ==
    /\ pc = "call"
    /\ pc' = "import_csv"
    /\ IF req.body = "invalid"
       THEN /\ status' = 400
            /\ UNCHANGED <<rows, raised, csv_text>>
       ELSE \E out \in {IF req.body = "array" THEN [raised |-> TRUE, rows |-> <<>>]
                         ELSE IterImportRows(req.parsed, clock_today)} :
                /\ rows' = out.rows
                /\ raised' = out.raised
                /\ csv_text' = IF out.raised THEN <<>> ELSE CsvText(out.rows)
                /\ status' = IF out.raised THEN 500 ELSE 200
    /\ UNCHANGED <<req, clock_today, line_count, missing_gl_count, amount_total>>
    /\ UNCHANGED refVars
    /\ UNCHANGED deptVars

\* submit_report up to csv_text = output.getvalue() (lines 3020-3133); the
\* loop over _iter_import_rows is not inside a try, so its exception ends
\* the handler (status 500); status stays 0 while the handler goes on
SubmitReportCsv ==
    /\ pc = "call"
    /\ pc' = "submit_report"
    /\ \E out \in {IterImportRows(SubmitPayload(req), clock_today)} :
           /\ rows' = out.rows
           /\ raised' = out.raised
           /\ csv_text' = IF out.raised THEN <<>> ELSE CsvText(out.rows)
           /\ status' = IF out.raised THEN 500 ELSE 0
           /\ line_count' = Len(out.rows)
           /\ missing_gl_count' = MissingGlCount(out.rows)
           /\ amount_total' = AmountTotal(out.rows)
    /\ UNCHANGED <<req, clock_today>>
    /\ UNCHANGED refVars
    /\ UNCHANGED deptVars

ImportNext == ImportCsv \/ SubmitReportCsv

SpecImport == ImportInit /\ [][ImportNext]_vars

----------------------------------------------------------------------------
(* Inputs of _make_reference *)

\* a base reference of n characters whose p-th character is a space
\* (p = 0: no space; p = 1: a leading space; p = n: a trailing space)
BaseStr(n, p) == [i \in 1..n |-> IF i = p THEN " " ELSE "x"]

BaseRefs == { BaseStr(n, p) : n \in 0..MaxBaseLen, p \in 0..MaxBaseLen }

\* an account code of k digits
CodeStr(k) == Rep("7", k)

AccountCodes == { CodeStr(k) : k \in 0..MaxCodeLen } \cup { CodeStr(4) \o <<" ">> }

\* gl_override: absent, or the account "6000"
Overrides == { <<>>, <<"6", "0", "0", "0">> }

RefInit ==
    /\ mr_base \in BaseRefs
    /\ mr_code \in AccountCodes
    /\ mr_gl \in Overrides
    /\ mr_ref = <<>>
    /\ mr_pc = "call"
    /\ ImportIdle
    /\ DeptIdle

\* one call of _make_reference
MakeReferenceCall ==
    /\ mr_pc = "call"
    /\ mr_ref' = MakeReference(mr_base, mr_code, mr_gl)
    /\ mr_pc' = "done"
    /\ UNCHANGED <<mr_base, mr_code, mr_gl>>
    /\ UNCHANGED importVars
    /\ UNCHANGED deptVars

RefNext == MakeReferenceCall

SpecReference == RefInit /\ [][RefNext]_vars

----------------------------------------------------------------------------
(* Claims about _make_reference *)

\* the suffix the specification describes: " ACCT=<originalCode>", leading
\* space included
SpecSuffix(code) == AcctTag \o code

OverrideCase == mr_gl /= <<>> /\ mr_code /= <<>>

\* C1: for every base reference, original account code and GL override
\* (present or absent), the reference _make_reference returns is at most 40
\* characters long.
C1_ReferenceAtMost40 ==
    mr_pc = "done" => Len(mr_ref) <= RefLimit

\* C1 witness: a call without override whose base is longer than 40
\* characters has returned
C1_Witness ==
    /\ mr_pc = "done"
    /\ mr_gl = <<>>
    /\ Len(Strip(mr_base)) > RefLimit
    /\ Len(mr_ref) = RefLimit

\* C2 (as claimed): whenever a GL override is present and an original
\* account code is known, the returned reference ends with the complete
\* suffix " ACCT=<originalCode>".
C2_SuffixPreserved ==
    (mr_pc = "done" /\ OverrideCase) => EndsWith(mr_ref, SpecSuffix(mr_code))

\* C3 (as claimed): when override and code are present and
\* base + " ACCT=<code>" exceeds 40 characters, the result is the first
\* (40 - length of " ACCT=<code>") characters of the base followed by
\* " ACCT=<code>".
C3_TruncatedBaseThenSuffix ==
    (/\ mr_pc = "done"
     /\ OverrideCase
     /\ Len(mr_base) + Len(SpecSuffix(mr_code)) > RefLimit
     /\ Len(SpecSuffix(mr_code)) <= RefLimit)
    => mr_ref = Take(mr_base, RefLimit - Len(SpecSuffix(mr_code))) \o SpecSuffix(mr_code)

----------------------------------------------------------------------------
(* Claims about _iter_import_rows, import_csv and submit_report *)

\* a handler has run
Done == pc \in {"import_csv", "submit_report"}

\* _iter_import_rows was called with a JSON object
Called ==
    \/ pc = "submit_report"
    \/ pc = "import_csv" /\ req.body = "object"

\* the payload _iter_import_rows was called with
EffPayload == IF pc = "submit_report" THEN SubmitPayload(req) ELSE req.parsed

\* the call returned its rows
Returned == Called /\ ~raised

\* the (item, line) pairs of a payload: every item that is an object, with
\* each of its lines that is an object, or with its single synthesized line
RECURSIVE PairsOfLines(_, _)
PairsOfLines(item, lines) ==
    IF lines = <<>> THEN <<>>
    ELSE (IF IsDict(Head(lines)) THEN <<[item |-> item, line |-> Head(lines)]>> ELSE <<>>)
         \o PairsOfLines(item, Tail(lines))

RECURSIVE PairsOfItems(_)
PairsOfItems(items) ==
    IF items = <<>> THEN <<>>
    ELSE (IF IsDict(Head(items)) THEN PairsOfLines(Head(items), LinesOf(Head(items)))
          ELSE <<>>)
         \o PairsOfItems(Tail(items))

Pairs == PairsOfItems(ItemsOf(EffPayload))

\* one row per pair, in order
Aligned == Len(rows) = Len(Pairs)

\* the line's effective codes: the line's, else the item's
EffActivity(pr) == Coalesce(<<Get(pr.line, "activityCode"), Get(pr.item, "activityCode")>>)

EffAccount(pr) == Coalesce(<<Get(pr.line, "accountCode"), Get(pr.item, "accountCode")>>)

EffOverride(pr) == Coalesce(<<Get(pr.item, "glAccountOverride")>>)

\* the computed free-text reference of a pair
EffReference(pr) ==
    MakeReference(Coalesce(<<Get(pr.item, "reference")>>), EffAccount(pr), EffOverride(pr))

\* C4 (as claimed): the CSV text begins with a header row equal to the
\* ordered 61-column list, followed by exactly one data row per ImportRow.
C4_HeaderThenRows ==
    Returned =>
        /\ Len(csv_text) = Len(rows) + 1
        /\ csv_text[1].kind = "header"
        /\ csv_text[1].cells = IMPORTFORMAT_FIELDS
        /\ \A i \in 1..Len(rows) : csv_text[i + 1] = CsvRecord(rows[i])

\* C4 (amended): the CSV text of both handlers has no header row; it is
\* exactly one data record per ImportRow, in the order of the rows, each of
\* 61 cells holding the row's values in the order of the column list.
C4_RowsWithoutHeader ==
    Returned =>
        /\ Len(IMPORTFORMAT_FIELDS) = FieldCount
        /\ Len(csv_text) = Len(rows)
        /\ \A i \in 1..Len(csv_text) :
              /\ csv_text[i].kind = "data"
              /\ Len(csv_text[i].cells) = FieldCount
              /\ \A j \in 1..FieldCount :
                    csv_text[i].cells[j] = rows[i][IMPORTFORMAT_FIELDS[j]]

\* C4 witness: submit_report has written two or more rows
C4_Witness ==
    /\ pc = "submit_report"
    /\ ~raised
    /\ Len(rows) >= 2
    /\ Len(csv_text) = Len(rows)
    /\ csv_text[2].cells[6] = <<"2", ".", "0", "0">>

\* the payload has items that are all objects, each with lines that is
\* missing or a list of objects
ObjectItemsAndLines ==
    LET items == Get(EffPayload, "items")
    IN  /\ IsList(items)
        /\ \A i \in 1..Len(items.elems) :
              /\ IsDict(items.elems[i])
              /\ LET lines == Get(items.elems[i], "lines")
                 IN  \/ lines = JNull
                     \/ /\ IsList(lines)
                        /\ \A j \in 1..Len(lines.elems) : IsDict(lines.elems[j])

\* the number of rows for an item: N for N lines, one without lines
RowsForItem(item) ==
    LET lines == Get(item, "lines")
    IN  IF IsList(lines) /\ Len(lines.elems) > 0 THEN Len(lines.elems) ELSE 1

RECURSIVE SumRowsForItems(_)
SumRowsForItems(items) ==
    IF items = <<>> THEN 0 ELSE RowsForItem(Head(items)) + SumRowsForItems(Tail(items))

\* the rows are those of the pairs, one each, in the order of the pairs
RowsFollowPairs ==
    /\ Len(rows) = SumRowsForItems(Get(EffPayload, "items").elems)
    /\ Aligned
    /\ \A k \in 1..Len(rows) :
          rows[k] = RowOfLine(RowContext(EffPayload, clock_today), Pairs[k].item, Pairs[k].line)

\* C5 (as claimed): for a payload whose items are objects and whose lines
\* (when given) are objects, exactly one row is emitted per (item, line)
\* pair, N rows for an item with N lines and one for an item without lines,
\* in payload order; nothing is sorted, merged or de-duplicated.
C5_OneRowPerPair ==
    (Called /\ ObjectItemsAndLines) => RowsFollowPairs

\* the same for the calls that return: what the code does whenever the
\* requester of the payload does not make it raise
C5_OneRowPerPairWhenReturned ==
    (Returned /\ ObjectItemsAndLines) => RowsFollowPairs

\* two identical lines of one item have given two identical rows
C5_DuplicateLinesKept ==
    /\ Returned
    /\ ObjectItemsAndLines
    /\ Len(rows) >= 2
    /\ rows[1] = rows[2]
    /\ Pairs[1] = Pairs[2]

\* C6 (as claimed): _iter_import_rows raises no exception for any
\* JSON-object payload.
C6_NeverRaises ==
    (Called /\ IsDict(EffPayload)) => ~raised

\* the line's amount is missing, null or not parseable as a number
Unparseable(pr) == ~PyFloat(Get(pr.line, "amount")).ok

\* C7 (as claimed): the Amount cell is empty when the line's amount is
\* missing, null or unparseable, and is "0.00" only when the amount is
\* numerically zero.
C7_ZeroOnlyForZero ==
    Returned =>
        /\ Aligned
        /\ \A k \in 1..Len(rows) :
              /\ Unparseable(Pairs[k]) => rows[k]["Amount"] = <<>>
              /\ rows[k]["Amount"] = <<"0", ".", "0", "0">> =>
                    /\ ~Unparseable(Pairs[k])
                    /\ PyFloat(Get(Pairs[k].line, "amount")).n = 0

\* C7 (amended): the Amount cell is empty when the line's amount is missing,
\* null or unparseable, and is "0.00" only when the amount is a number that
\* rounds to zero at two decimals (0 <= amount < 0.005), which includes
\* small non-zero amounts; an unparseable amount is never rendered "0.00".
C7_EmptyWhenUnparseable ==
    Returned =>
        /\ Aligned
        /\ \A k \in 1..Len(rows) :
              /\ Unparseable(Pairs[k]) => rows[k]["Amount"] = <<>>
              /\ rows[k]["Amount"] = <<"0", ".", "0", "0">> =>
                    /\ ~Unparseable(Pairs[k])
                    /\ PyFloat(Get(Pairs[k].line, "amount")).n >= 0
                    /\ PyFloat(Get(Pairs[k].line, "amount")).n < 5

\* C7 witness: a row of a line whose amount is the str "abc" has an empty
\* Amount cell
C7_Witness ==
    /\ Returned
    /\ Aligned
    /\ \E k \in 1..Len(rows) :
          /\ Get(Pairs[k].line, "amount") = JStr(<<"a", "b", "c">>)
          /\ rows[k]["Amount"] = <<>>

\* C8 (as claimed): the Reference column is "TRAINING/EDUCATION" exactly
\* when the effective activity code equals the literal string "770", and
\* "EXPENSES / MILEAGE" for every other activity code.
C8_TrainingIffLiteral770 ==
    Returned =>
        /\ Aligned
        /\ \A k \in 1..Len(rows) :
              rows[k]["Reference"] =
                  IF EffActivity(Pairs[k]) = TrainingActivity
                  THEN TrainingLabel ELSE ExpensesLabel

\* C8 (amended): the Reference column is "TRAINING/EDUCATION" exactly when
\* the effective activity code (the line's, else the item's), with
\* surrounding whitespace stripped, equals "770", and "EXPENSES / MILEAGE"
\* for every other activity code, including an empty one; the column holds
\* one of these two labels and never the free-text reference.
C8_TrainingIffStripped770 ==
    Returned =>
        /\ Aligned
        /\ \A k \in 1..Len(rows) :
              /\ rows[k]["Reference"] =
                    IF Strip(EffActivity(Pairs[k])) = TrainingActivity
                    THEN TrainingLabel ELSE ExpensesLabel
              /\ rows[k]["Reference"] \in {TrainingLabel, ExpensesLabel}
              /\ rows[k]["GL Activity"] = EffActivity(Pairs[k])

\* C8 witness: a row whose effective activity code is " 770 " is labelled
\* TRAINING/EDUCATION
C8_Witness ==
    /\ Returned
    /\ Aligned
    /\ \E k \in 1..Len(rows) :
          /\ EffActivity(Pairs[k]) = <<" ", "7", "7", "0", " ">>
          /\ rows[k]["Reference"] = TrainingLabel

\* the note the claim describes: the item's description, else the override
\* note when there is an override
ClaimedNote(pr) ==
    IF EffOverride(pr) /= <<>> /\ EffAccount(pr) /= <<>>
    THEN Coalesce(<<Get(pr.item, "description"),
                    JStr(OverrideNote(EffOverride(pr), EffAccount(pr)))>>)
    ELSE Coalesce(<<Get(pr.item, "description")>>)

\* C9 (as claimed): Extended Reference is "<reference> | <extendedNote>"
\* when both exist and otherwise whichever of the two is present, so an item
\* with a description and no GL override still carries its description.
C9_DescriptionAlwaysCarried ==
    Returned =>
        /\ Aligned
        /\ \A k \in 1..Len(rows) :
              rows[k]["Extended Reference"] =
                  IF EffReference(Pairs[k]) /= <<>> /\ ClaimedNote(Pairs[k]) /= <<>>
                  THEN EffReference(Pairs[k]) \o <<" ", "|", " ">> \o ClaimedNote(Pairs[k])
                  ELSE IF ClaimedNote(Pairs[k]) /= <<>> THEN ClaimedNote(Pairs[k])
                  ELSE EffReference(Pairs[k])

\* C9 (amended): a note exists only when the item has a GL override and an
\* original account code is known; it is then the item's description, or
\* "OVERRIDE=<override>; ORIGINAL_ACCT=<code>" when the item has none, and
\* Extended Reference is "<reference> | <note>".  In every other case
\* Extended Reference is the reference alone: a description of an item
\* without GL override is not carried.
C9_NoteOnlyWithOverride ==
    Returned =>
        /\ Aligned
        /\ \A k \in 1..Len(rows) :
              rows[k]["Extended Reference"] =
                  IF EffOverride(Pairs[k]) /= <<>> /\ EffAccount(Pairs[k]) /= <<>>
                  THEN EffReference(Pairs[k]) \o <<" ", "|", " ">>
                       \o Coalesce(<<Get(Pairs[k].item, "description"),
                                     JStr(OverrideNote(EffOverride(Pairs[k]),
                                                       EffAccount(Pairs[k])))>>)
                  ELSE EffReference(Pairs[k])

\* C9 witness: an item with a description and no override has given a row
\* whose Extended Reference is its reference alone
C9_Witness ==
    /\ Returned
    /\ Aligned
    /\ \E k \in 1..Len(rows) :
          /\ Get(Pairs[k].item, "description") = JStr(<<"n", "o", "t", "e">>)
          /\ EffOverride(Pairs[k]) = <<>>
          /\ rows[k]["Extended Reference"] = <<"c", "o", "n", "f", " ", "f", "e", "e">>

\* the payload supplies a value under key: one that is not None and whose
\* text is not blank
Supplied(key) == Coalesce(<<Get(EffPayload, key)>>) /= <<>>

SuppliedOr(key, default) ==
    IF Supplied(key) THEN Coalesce(<<Get(EffPayload, key)>>) ELSE default

\* C10 (as claimed): each fixed default - Due Date = today + 7 days, Invoice
\* Date = GL Post Date = today, Address Line 1 = ".", GL Division = "0000",
\* Vendor = "CORE" - is used when the payload does not supply the value and
\* is replaced by the payload's value when it supplies one.
C10_AllDefaultsOverridable ==
    Returned =>
        \A k \in 1..Len(rows) :
            /\ rows[k]["GL Division"] = SuppliedOr("division", <<"0", "0", "0", "0">>)
            /\ rows[k]["Vendor"] = SuppliedOr("vendor", <<"C", "O", "R", "E">>)
            /\ rows[k]["Due Date"] =
                  SuppliedOr("dueDate", StrfMDY(AddDays(clock_today, DueDays)))
            /\ rows[k]["Invoice Date"] = SuppliedOr("invoiceDate", StrfMDY(clock_today))
            /\ rows[k]["GL Post Date"] = SuppliedOr("glPostDate", StrfMDY(clock_today))
            /\ rows[k]["Address Line 1"] = SuppliedOr("addressLine1", <<".">>)

\* C10 (amended): GL Division = "0000" and Vendor = "CORE" are used when
\* the payload supplies no non-blank value and are replaced by the payload's
\* value when it supplies one; Due Date = today + 7 days, Invoice Date =
\* GL Post Date = today and Address Line 1 = "." are fixed: no payload value
\* replaces them.
C10_OnlyDivisionAndVendorOverridable ==
    Returned =>
        \A k \in 1..Len(rows) :
            /\ rows[k]["GL Division"] = SuppliedOr("division", <<"0", "0", "0", "0">>)
            /\ rows[k]["Vendor"] = SuppliedOr("vendor", <<"C", "O", "R", "E">>)
            /\ rows[k]["Due Date"] = StrfMDY(AddDays(clock_today, DueDays))
            /\ rows[k]["Invoice Date"] = StrfMDY(clock_today)
            /\ rows[k]["GL Post Date"] = StrfMDY(clock_today)
            /\ rows[k]["Address Line 1"] = <<".">>

\* C10 witness: on 2026-02-25 a payload that supplies a vendor and a due
\* date has given a row with that vendor, the default division and the due
\* date 03/04/2026
C10_Witness ==
    /\ Returned
    /\ Len(rows) >= 1
    /\ Supplied("vendor")
    /\ Supplied("dueDate")
    /\ ~Supplied("division")
    /\ rows[1]["Vendor"] = <<"A", "C", "M", "E">>
    /\ rows[1]["GL Division"] = <<"0", "0", "0", "0">>
    /\ rows[1]["Due Date"] = <<"0", "3", "/", "0", "4", "/", "2", "0", "2", "6">>

----------------------------------------------------------------------------
(* The reference ledger: expense_codes.csv as csv.DictReader reads it *)

\* str.isdigit() on the model's alphabet: not empty, and digits only
IsDigitStr(s) == s /= <<>> /\ AllDigits(s)

UpperChar(c) ==
    IF \E i \in 1..Len(LowerLetters) : LowerLetters[i] = c
    THEN UpperLetters[CHOOSE i \in 1..Len(LowerLetters) : LowerLetters[i] = c]
    ELSE c

\* str.upper()
Upper(s) == [i \in 1..Len(s) |-> UpperChar(s[i])]

\* the separator of "CODE - DESCRIPTION"
CodeSep == <<" ", "-", " ">>

\* s.find(t) + 1: the position of the first occurrence of t in s, 0 when
\* there is none
FindFirst(s, t) ==
    LET hits == { i \in 1..(Len(s) - Len(t) + 1) : SubSeq(s, i, i + Len(t) - 1) = t }
    IN  IF hits = {} THEN 0 ELSE CHOOSE i \in hits : \A j \in hits : i <= j

\* _split_code_and_desc(value); value None and value "" are both falsy and
\* give ("", "")
SplitCodeAndDesc(value) ==
    IF value = <<>> THEN [code |-> <<>>, desc |-> <<>>]
    ELSE LET at == FindFirst(value, CodeSep)
         IN  IF at = 0 THEN [code |-> Strip(value), desc |-> <<>>]
             ELSE [code |-> Strip(SubSeq(value, 1, at - 1)),
                   desc |-> Strip(SubSeq(value, at + Len(CodeSep), Len(value)))]

\* [A-Z0-9]
IsAlnumUpper(c) ==
    \/ IsDigit(c)
    \/ \E i \in 1..Len(UpperLetters) : UpperLetters[i] = c

\* text.replace("&", " AND ")
RECURSIVE ReplaceAmp(_)
ReplaceAmp(s) ==
    IF s = <<>> THEN <<>>
    ELSE (IF Head(s) = "&" THEN <<" ", "A", "N", "D", " ">> ELSE <<Head(s)>>) \o ReplaceAmp(Tail(s))

\* re.sub(r"[^A-Z0-9]+", " ", text): every run of other characters becomes
\* one space
RECURSIVE SubNonAlnum(_)
SubNonAlnum(s) ==
    IF s = <<>> THEN <<>>
    ELSE IF IsAlnumUpper(Head(s)) THEN <<Head(s)>> \o SubNonAlnum(Tail(s))
    ELSE IF Len(s) > 1 /\ ~IsAlnumUpper(s[2]) THEN SubNonAlnum(Tail(s))
    ELSE <<" ">> \o SubNonAlnum(Tail(s))

\* re.sub(r"\s+", " ", text)
RECURSIVE SubSpaces(_)
SubSpaces(s) ==
    IF s = <<>> THEN <<>>
    ELSE IF ~IsSpace(Head(s)) THEN <<Head(s)>> \o SubSpaces(Tail(s))
    ELSE IF Len(s) > 1 /\ IsSpace(s[2]) THEN SubSpaces(Tail(s))
    ELSE <<" ">> \o SubSpaces(Tail(s))

\* _normalize_key(value)
NormalizeKey(value) ==
    IF value = <<>> THEN <<>>
    ELSE Strip(SubSpaces(SubNonAlnum(ReplaceAmp(Strip(Upper(value))))))

\* str.split(): the maximal runs of characters that are no whitespace
RECURSIVE SplitWords(_)
SplitWords(s) ==
    LET t == LStrip(s)
        sp == FindFirst(t, <<" ">>)
    IN  IF t = <<>> THEN <<>>
        ELSE IF sp = 0 THEN <<t>>
        ELSE <<SubSeq(t, 1, sp - 1)>> \o SplitWords(SubSeq(t, sp + 1, Len(t)))

\* set(norm.split())
TokenSet(norm) == { SplitWords(norm)[i] : i \in 1..Len(SplitWords(norm)) }

\* the file: exists = FALSE when CSV_PATH.exists() is false; headers are the
\* cells of the first record (the fieldnames of csv.DictReader); every
\* other record is a sequence of cells, no longer than the headers
LedgerFile(headers, records) == [exists |-> TRUE, headers |-> headers, records |-> records]

\* r.get(key, ""), r the dict csv.DictReader builds of one record: the cell
\* under the last header equal to key; None (here "", equally falsy) when
\* the record is too short to have that cell; "" when no header is key
RowGet(headers, record, key) ==
    LET cols == { i \in 1..Len(headers) : headers[i] = key }
    IN  IF cols = {} THEN <<>>
        ELSE LET col == CHOOSE i \in cols : \A j \in cols : j <= i
             IN  IF col <= Len(record) THEN record[col] ELSE <<>>

\* the loop of _load_rows over the records still to read
RECURSIVE LoadRowsFrom(_, _)
LoadRowsFrom(headers, records) ==
    IF records = <<>> THEN <<>>
    ELSE LET r == Head(records)
             dept == SplitCodeAndDesc(RowGet(headers, r, <<"d", "e", "p", "a", "r", "t", "m", "e", "n", "t">>))
             act == SplitCodeAndDesc(RowGet(headers, r, <<"a", "c", "t", "i", "v", "i", "t", "y">>))
             acct == SplitCodeAndDesc(RowGet(headers, r, <<"a", "c", "c", "o", "u", "n", "t">>))
         IN  (IF dept.code /= <<>> /\ act.code /= <<>> /\ acct.code /= <<>>
              THEN <<[departmentCode |-> dept.code,
                      activityCode |-> act.code,
                      accountCode |-> acct.code,
                      description |-> acct.desc]>>
              ELSE <<>>)
             \o LoadRowsFrom(headers, Tail(records))

\* _load_rows()
LoadRows(file) ==
    IF ~file.exists THEN <<>> ELSE LoadRowsFrom(file.headers, file.records)

\* one entry of _load_department_entries
DeptEntry(code, name) ==
    [departmentCode |-> code,
     departmentName |-> name,
     norm |-> NormalizeKey(name),
     tokens |-> TokenSet(NormalizeKey(name))]

\* the entries when only the records kept as rows give one: the department
\* of a record without activity or account code is passed over
RECURSIVE LoadEntriesFromRows(_, _, _, _)
LoadEntriesFromRows(headers, records, entries, seen_codes) ==
    IF records = <<>> THEN entries
    ELSE LET d == SplitCodeAndDesc(RowGet(headers, Head(records), <<"d", "e", "p", "a", "r", "t", "m", "e", "n", "t">>))
         IN  IF \/ d.code = <<>> \/ d.desc = <<>> \/ d.code \in seen_codes
                \/ LoadRowsFrom(headers, <<Head(records)>>) = <<>>
             THEN LoadEntriesFromRows(headers, Tail(records), entries, seen_codes)
             ELSE LoadEntriesFromRows(headers, Tail(records),
                                      Append(entries, DeptEntry(d.code, d.desc)),
                                      seen_codes \cup {d.code})

\* the loop of _load_department_entries: entries so far, seen_codes, and the
\* records still to read
RECURSIVE LoadEntriesFrom(_, _, _, _)
LoadEntriesFrom(headers, records, entries, seen_codes) ==
    IF records = <<>> THEN entries
    ELSE LET d == SplitCodeAndDesc(RowGet(headers, Head(records), <<"d", "e", "p", "a", "r", "t", "m", "e", "n", "t">>))
         IN  IF d.code = <<>> \/ d.desc = <<>> \/ d.code \in seen_codes
             THEN LoadEntriesFrom(headers, Tail(records), entries, seen_codes)
             ELSE LoadEntriesFrom(headers, Tail(records),
                                  Append(entries, DeptEntry(d.code, d.desc)),
                                  seen_codes \cup {d.code})

\* the list _load_department_entries builds when the cache is empty
LoadDepartmentEntries(file) ==
    IF ~file.exists THEN <<>>
    ELSE LoadEntriesFrom(file.headers, file.records, <<>>, {})
----------------------------------------------------------------------------
(* _map_department_name_to_code *)

\* the literal 0.9 of line 273, in tenths
AutoPickTenths == 9

\* scored[:5]
CandidateLimit == 5

\* score = common / len(query_tokens), kept as the fraction num / den
Score(num, den) == [num |-> num, den |-> den]

ScoreLess(a, b) == a.num * b.den < b.num * a.den

ScoreAtLeastThreshold(a) == a.num * 10 >= AutoPickTenths * a.den

\* the loop of lines 253-258: (score, e) for every entry that shares a
\* token with the query, in the order of the entries
RECURSIVE ScoredFrom(_, _)
ScoredFrom(entries, query_tokens) ==
    IF entries = <<>> THEN <<>>
    ELSE LET e == Head(entries)
             common == Cardinality(query_tokens \cap e.tokens)
         IN  (IF common = 0 THEN <<>>
              ELSE <<[score |-> Score(common, Cardinality(query_tokens)), e |-> e]>>)
             \o ScoredFrom(Tail(entries), query_tokens)

\* the same list left in the order of the ledger
UnsortedScored(scored) == scored

\* t put into a list sorted by score, highest first, behind every element
\* whose score is not lower (the sort is stable)
RECURSIVE InsertByScore(_, _)
InsertByScore(sorted, t) ==
    IF sorted = <<>> THEN <<t>>
    ELSE IF ScoreLess(Head(sorted).score, t.score) THEN <<t>> \o sorted
    ELSE <<Head(sorted)>> \o InsertByScore(Tail(sorted), t)

\* scored.sort(key=lambda t: t[0], reverse=True)
RECURSIVE SortByScore(_)
SortByScore(scored) ==
    IF scored = <<>> THEN <<>>
    ELSE InsertByScore(SortByScore(SubSeq(scored, 1, Len(scored) - 1)),
                       scored[Len(scored)])

Candidate(e) == [departmentCode |-> e.departmentCode, departmentName |-> e.departmentName]

\* candidates of lines 261-264
CandidatesOf(scored) ==
    [i \in 1..Min(CandidateLimit, Len(scored)) |-> Candidate(scored[i].e)]

\* the tuple returned
Resolution(code, name, matchType, candidates) ==
    [departmentCode |-> code, departmentName |-> name, matchType |-> matchType,
     candidates |-> candidates]

NoResolution == Resolution(<<>>, <<>>, "none", <<>>)

\* the call returns at lines 229-239, before _load_department_entries()
ReturnsBeforeLedger(department_name) ==
    \/ department_name = <<>>
    \/ IsDigitStr(SplitCodeAndDesc(department_name).code)
    \/ IsDigitStr(NormalizeKey(department_name))

\* lines 248-276 with the auto-pick taken on the threshold alone
FuzzyResolutionNoRunnerUp(entries, query_norm) ==
    LET query_tokens == TokenSet(query_norm)
        scored == SortByScore(ScoredFrom(entries, query_tokens))
    IN  IF query_tokens = {} THEN NoResolution
        ELSE IF scored = <<>> THEN NoResolution
        ELSE IF ScoreAtLeastThreshold(scored[1].score)
             THEN Resolution(scored[1].e.departmentCode, scored[1].e.departmentName,
                             "fuzzy", CandidatesOf(scored))
        ELSE Resolution(<<>>, <<>>, "none", CandidatesOf(scored))

\* lines 248-276: the fuzzy stage
FuzzyResolution(entries, query_norm) ==
    LET query_tokens == TokenSet(query_norm)
        scored == SortByScore(ScoredFrom(entries, query_tokens))
        best_score == scored[1].score
        second_score == IF Len(scored) > 1 THEN scored[2].score ELSE Score(0, 1)
    IN  IF query_tokens = {} THEN NoResolution
        ELSE IF scored = <<>> THEN NoResolution
        ELSE IF ScoreAtLeastThreshold(best_score) /\ ScoreLess(second_score, best_score)
             THEN Resolution(scored[1].e.departmentCode, scored[1].e.departmentName,
                             "fuzzy", CandidatesOf(scored))
        ELSE Resolution(<<>>, <<>>, "none", CandidatesOf(scored))

\* exact of line 243
ExactMatches(entries, query_norm) ==
    SelectSeq(entries, LAMBDA e : e.norm = query_norm)

\* lines 243-246 with the first of several exact matches taken
LedgerResolutionFirstExact(entries, query_norm) ==
    IF Len(ExactMatches(entries, query_norm)) >= 1
    THEN Resolution(ExactMatches(entries, query_norm)[1].departmentCode,
                    ExactMatches(entries, query_norm)[1].departmentName, "exact", <<>>)
    ELSE FuzzyResolution(entries, query_norm)

\* lines 243-276: the stages that read the entries
LedgerResolution(entries, query_norm) ==
    IF Len(ExactMatches(entries, query_norm)) = 1
    THEN Resolution(ExactMatches(entries, query_norm)[1].departmentCode,
                    ExactMatches(entries, query_norm)[1].departmentName, "exact", <<>>)
    ELSE FuzzyResolution(entries, query_norm)

\* lines 232-235 with the ledger asked about the code
HintResolutionChecked(department_name, entries) ==
    LET hint == SplitCodeAndDesc(department_name)
    IN  IF \E i \in 1..Len(entries) : entries[i].departmentCode = hint.code
        THEN Resolution(hint.code, IF hint.desc /= <<>> THEN hint.desc ELSE department_name,
                        "exact", <<>>)
        ELSE NoResolution

\* lines 232-235: "620 - INFORMATION TECHNOLOGY" is honoured as it is
HintResolution(department_name, entries) ==
    LET hint == SplitCodeAndDesc(department_name)
    IN  Resolution(hint.code, IF hint.desc /= <<>> THEN hint.desc ELSE department_name,
                   "exact", <<>>)

\* _map_department_name_to_code(department_name), entries being what
\* _load_department_entries() returns when line 241 is reached
MapDepartmentNameToCode(department_name, entries) ==
    IF department_name = <<>> THEN NoResolution
    ELSE IF IsDigitStr(SplitCodeAndDesc(department_name).code)
         THEN HintResolution(department_name, entries)
    ELSE IF IsDigitStr(NormalizeKey(department_name))
         THEN Resolution(NormalizeKey(department_name), <<>>, "exact", <<>>)
    ELSE LedgerResolution(entries, NormalizeKey(department_name))
----------------------------------------------------------------------------
(* The cached loaders, called one at a time *)

\* _load_department_entries() that reloads a cache holding an empty list
EntriesAfterLoadIfTruthy(slot, file) ==
    IF slot.set /\ slot.value /= <<>> THEN slot ELSE Slot(LoadDepartmentEntries(file))

\* _load_department_entries(): the global after the call; the value
\* returned is the global's
EntriesAfterLoad(slot, file) ==
    IF slot.set THEN slot ELSE Slot(LoadDepartmentEntries(file))

\* lines 1155-1157 of expense_codes: the global after them
RowsAfterLoad(slot, file) ==
    IF slot.set THEN slot ELSE Slot(LoadRows(file))

\* the count of loads after a call that found slot
CountAfterLoad(slot, name) ==
    IF slot.set THEN load_count ELSE [load_count EXCEPT ![name] = @ + 1]

----------------------------------------------------------------------------
(* Bounds and inputs of the department resolver *)

\* longest ledger built from the pool of records
MaxLedgerRecords == 2

\* number of records of the ledger whose departments share tokens
MaxSharing == 7

LowerHeaders == <<<<"d", "e", "p", "a", "r", "t", "m", "e", "n", "t">>, <<"a", "c", "t", "i", "v", "i", "t", "y">>, <<"a", "c", "c", "o", "u", "n", "t">>>>

\* a record with the given department cell
DeptRecord(cell) == <<cell, <<"7", "0", "0", " ", "-", " ", "T", "R", "A", "V", "E", "L">>, <<"5", "5", "0", "0", " ", "-", " ", "F", "E", "E", "S">>>>

\* department cells: names that normalize to the same key under two codes,
\* a name that is a prefix of another, a name without letters or digits
DeptCells ==
    { <<"6", "2", "0", " ", "-", " ", "I", "N", "F", "O", "R", "M", "A", "T", "I", "O", "N", " ", "T", "E", "C", "H", "N", "O", "L", "O", "G", "Y">>,
      <<"1", "7", "5", " ", "-", " ", "P", "O", "W", "E", "R", " ", "&", " ", "L", "I", "G", "H", "T">>,
      <<"1", "8", "0", " ", "-", " ", "P", "o", "w", "e", "r", " ", "a", "n", "d", " ", "L", "i", "g", "h", "t">>,
      <<"3", "0", "0", " ", "-", " ", "I", "T">>,
      <<"3", "1", "0", " ", "-", " ", "I", "T", " ", "S", "E", "R", "V", "I", "C", "E", "S">>,
      <<"1", "0", "0", " ", "-", " ", "-", "-", "-">> }

PoolLedgers ==
    { LedgerFile(LowerHeaders, [i \in 1..Len(cs) |-> DeptRecord(cs[i])])
        : cs \in SeqsUpTo(DeptCells, MaxLedgerRecords) }

\* a name of nine one-letter tokens beside a short one; a code seen twice
\* and a cell without name
OddLedgers ==
    { LedgerFile(LowerHeaders, <<DeptRecord(<<"9", "0", "0", " ", "-", " ", "A", " ", "B", " ", "C", " ", "D", " ", "E", " ", "F", " ", "G", " ", "H", " ", "I">>),
                                 DeptRecord(<<"3", "0", "0", " ", "-", " ", "I", "T">>)>>),
      LedgerFile(LowerHeaders, <<DeptRecord(<<"6", "2", "0", " ", "-", " ", "I", "N", "F", "O", "R", "M", "A", "T", "I", "O", "N", " ", "T", "E", "C", "H", "N", "O", "L", "O", "G", "Y">>),
                                 DeptRecord(<<"4", "0", "0">>),
                                 DeptRecord(<<"6", "2", "0", " ", "-", " ", "H", "E", "L", "P", " ", "D", "E", "S", "K">>)>>) }

\* the i-th department of the ledger of departments that share tokens with
\* one another: every one has OFFICE, the odd ones POWER, every third LIGHT,
\* all but every fourth GRID
SharingName(i) ==
    <<"O", "F", "F", "I", "C", "E">>
    \o (IF i % 2 = 1 THEN <<" ", "P", "O", "W", "E", "R">> ELSE <<>>)
    \o (IF i % 3 = 0 THEN <<" ", "L", "I", "G", "H", "T">> ELSE <<>>)
    \o (IF i % 4 /= 0 THEN <<" ", "G", "R", "I", "D">> ELSE <<>>)

SharingLedger(n) ==
    LedgerFile(LowerHeaders,
               [i \in 1..n |-> DeptRecord(NatStr(500 + i) \o CodeSep \o SharingName(i))])

SharingLedgers == { SharingLedger(n) : n \in (MaxSharing - 2)..MaxSharing }

ResolverLedgers == { MissingFile } \cup PoolLedgers \cup OddLedgers \cup SharingLedgers

\* the parts of the names given as "<digits> - <name>"
HintCodes == { <<"6", "2", "0">>, <<"9", "9", "9">> }

HintNames == { <<"I", "N", "F", "O", "R", "M", "A", "T", "I", "O", "N", " ", "T", "E", "C", "H", "N", "O", "L", "O", "G", "Y">>, <<"N", "O", "W", "H", "E", "R", "E">>, <<"A", " ", "-", " ", "B">> }

HintInputs == { c \o CodeSep \o n : c \in HintCodes, n \in HintNames }

\* department names asked for
NameInputs ==
    HintInputs \cup
    { <<>>,
      <<" ", "6", "2", "0", " ", "-", " ", "I", "T", " ">>,
      <<"6", "2", "0", " ", "-", " ">>,
      <<"6", "2", "0">>,
      <<"#", "6", "2", "0">>,
      <<"1", "2", "a", " ", "-", " ", "I", "T">>,
      <<"I", "n", "f", "o", "r", "m", "a", "t", "i", "o", "n", " ", "T", "e", "c", "h", "n", "o", "l", "o", "g", "y">>,
      <<"I", "T", " ", "I", "n", "f", "o", "r", "m", "a", "t", "i", "o", "n">>,
      <<"h", "e", "l", "p", " ", "d", "e", "s", "k">>,
      <<"P", "o", "w", "e", "r", " ", "&", " ", "L", "i", "g", "h", "t">>,
      <<"p", "o", "w", "e", "r", " ", "a", "n", "d", " ", "l", "i", "g", "h", "t">>,
      <<"I", "T">>,
      <<"i", "t", " ", "s", "e", "r", "v", "i", "c", "e", "s">>,
      <<"?", "?", "?">>,
      <<"P", "O", "W", "E", "R", " ", "L", "I", "G", "H", "T", " ", "G", "R", "I", "D">>,
      <<"G", "R", "I", "D", " ", "L", "I", "G", "H", "T", " ", "P", "O", "W", "E", "R", " ", "O", "F", "F", "I", "C", "E">>,
      <<"O", "F", "F", "I", "C", "E">>,
      <<"A", " ", "B", " ", "C", " ", "D", " ", "E", " ", "F", " ", "G", " ", "H", " ", "I", " ", "J">>,
      <<"A", " ", "B", " ", "C", " ", "D", " ", "E", " ", "F", " ", "G", " ", "H", " ", "I">> }

\* a fresh process and one call of _map_department_name_to_code
ResolverInit ==
    /\ ledger \in ResolverLedgers
    /\ env_overrides = UnsetEnv
    /\ ROWS = NoneSlot
    /\ DEPT_ENTRIES = NoneSlot
    /\ DEPT_EMAIL_OVERRIDES = NoneSlot
    /\ load_count = NoLoads
    /\ d_pc = "call"
    /\ d_call \in { [op |-> "map", name |-> n] : n \in NameInputs }
    /\ d_ret = [op |-> "none"]
    /\ th = <<>>
    /\ RefIdle
    /\ ImportIdle

\* _map_department_name_to_code(department_name)
MapDepartmentName ==
    /\ d_pc = "call"
    /\ d_call.op = "map"
    /\ d_pc' = "done"
    /\ IF ReturnsBeforeLedger(d_call.name)
       THEN /\ d_ret' = [op |-> "map", res |-> MapDepartmentNameToCode(d_call.name, <<>>)]
            /\ UNCHANGED <<DEPT_ENTRIES, load_count>>
       ELSE \E slot \in {EntriesAfterLoad(DEPT_ENTRIES, ledger)} :
                /\ DEPT_ENTRIES' = slot
                /\ load_count' = CountAfterLoad(DEPT_ENTRIES, "entries")
                /\ d_ret' = [op |-> "map",
                             res |-> MapDepartmentNameToCode(d_call.name, slot.value)]
    /\ UNCHANGED <<ledger, env_overrides, ROWS, DEPT_EMAIL_OVERRIDES, d_call, th>>
    /\ UNCHANGED refVars
    /\ UNCHANGED importVars

ResolverNext == MapDepartmentName

SpecResolver == ResolverInit /\ [][ResolverNext]_vars
----------------------------------------------------------------------------
(* Claims about _map_department_name_to_code *)

\* a call of _map_department_name_to_code has returned
MapDone == d_pc = "done" /\ d_call.op = "map"

\* the normalized input and its tokens
QueryNorm == NormalizeKey(d_call.name)

QueryTokens == TokenSet(QueryNorm)

\* the department entries of the ledger
LedgerEntries == LoadDepartmentEntries(ledger)

\* the tokens an entry shares with the tokens qt of the input; the score of
\* the entry is this number over the number of input tokens
Shared(e, qt) == Cardinality(qt \cap e.tokens)

\* shared / input tokens >= 0.9
ScoreAtLeastNineTenths(e, qt) == 10 * Shared(e, qt) >= 9 * Cardinality(qt)

\* the input is a numeric code, as given or once normalized
NumericForm(qn) ==
    \/ IsDigitStr(SplitCodeAndDesc(d_call.name).code)
    \/ IsDigitStr(qn)

\* the entries of es whose normalizedName equals the normalized input qn
ExactIndexes(es, qn) == { i \in 1..Len(es) : es[i].norm = qn }

\* the call went on to the fuzzy stage: the input has tokens, is no numeric
\* code and has no single exact match among the entries es
FuzzyStage(es, qn) ==
    /\ MapDone
    /\ d_call.name /= <<>>
    /\ ~NumericForm(qn)
    /\ TokenSet(qn) /= {}
    /\ Cardinality(ExactIndexes(es, qn)) /= 1

\* entry i of es scores at least 0.9 and strictly more than every other entry
ClearWinner(es, qt, i) ==
    /\ ScoreAtLeastNineTenths(es[i], qt)
    /\ \A j \in 1..Len(es) : j /= i => Shared(es[j], qt) < Shared(es[i], qt)

\* C11: matchType "fuzzy" is returned, with a department code, only for an
\* entry whose score is at least 0.9 and strictly greater than the score of
\* every other ledger entry; when the fuzzy stage finds the top score below
\* 0.9 or tied with the runner-up, the result is ("", "", "none", candidates).
C11_FuzzyOnlyForClearWinner ==
    \A es \in {LedgerEntries}, qn \in {QueryNorm}, qt \in {QueryTokens} :
        /\ (MapDone /\ d_ret.res.matchType = "fuzzy") =>
              /\ d_ret.res.departmentCode /= <<>>
              /\ \E i \in 1..Len(es) :
                    /\ es[i].departmentCode = d_ret.res.departmentCode
                    /\ es[i].departmentName = d_ret.res.departmentName
                    /\ ClearWinner(es, qt, i)
        /\ (FuzzyStage(es, qn) /\ ~\E i \in 1..Len(es) : ClearWinner(es, qt, i)) =>
              /\ d_ret.res.matchType = "none"
              /\ d_ret.res.departmentCode = <<>>
              /\ d_ret.res.departmentName = <<>>

\* C11 witness: an entry that covers nine of the ten input tokens, a score
\* of exactly 0.9, has been picked as fuzzy
C11_Witness ==
    /\ MapDone
    /\ d_ret.res.matchType = "fuzzy"
    /\ Cardinality(QueryTokens) = 10
    /\ d_ret.res.departmentCode = <<"9", "0", "0">>
    /\ Len(LedgerEntries) >= 2

\* C12: for a name with tokens that is not in numeric-code form, exactly one
\* entry with a normalizedName equal to the normalized input gives (its
\* code, its name, "exact", []); two or more such entries give matchType
\* "none" and an empty code.
C12_ExactOnlyWhenUnique ==
    \A es \in {LedgerEntries}, qn \in {QueryNorm} :
        (MapDone /\ TokenSet(qn) /= {} /\ ~NumericForm(qn)) =>
            /\ Cardinality(ExactIndexes(es, qn)) = 1 =>
                  \E i \in ExactIndexes(es, qn) :
                      d_ret.res = Resolution(es[i].departmentCode,
                                             es[i].departmentName, "exact", <<>>)
            /\ Cardinality(ExactIndexes(es, qn)) >= 2 =>
                  /\ d_ret.res.matchType = "none"
                  /\ d_ret.res.departmentCode = <<>>

\* C12 witness: "power and light" with the departments 175 and 180 that both
\* normalize to POWER AND LIGHT has not been resolved
C12_Witness ==
    /\ MapDone
    /\ d_call.name = <<"p", "o", "w", "e", "r", " ", "a", "n", "d", " ", "l", "i", "g", "h", "t">>
    /\ Cardinality(ExactIndexes(LedgerEntries, QueryNorm)) = 2
    /\ d_ret.res.matchType = "none"
    /\ Len(d_ret.res.candidates) = 2

\* C13: an input "<digits> - <name>" gives (<digits>, <name>, "exact", [])
\* whatever the ledger holds, and the ledger is not consulted: the
\* department entries are not loaded by the call.
C13_CodeHintTrusted ==
    MapDone =>
        \A c \in HintCodes, n \in HintNames :
            d_call.name = c \o CodeSep \o n =>
                /\ d_ret.res = Resolution(c, n, "exact", <<>>)
                /\ DEPT_ENTRIES = NoneSlot
                /\ load_count["entries"] = 0

\* C13 witness: "999 - NOWHERE" has been resolved to 999 with a ledger that
\* has departments and none with that code
C13_Witness ==
    /\ MapDone
    /\ d_call.name = <<"9", "9", "9", " ", "-", " ", "N", "O", "W", "H", "E", "R", "E">>
    /\ Len(LedgerEntries) >= 1
    /\ d_ret.res.departmentCode = <<"9", "9", "9">>
    /\ d_ret.res.matchType = "exact"

\* C14 (as claimed): an input that is empty or whose normalized form has no
\* tokens gives ("", "", "none", []) for every ledger content.
C14_NoTokensGivesNone ==
    (MapDone /\ QueryTokens = {}) => d_ret.res = NoResolution

\* the entry of es a candidate was made of: the one with its code
EntryOf(es, cand) ==
    es[CHOOSE i \in 1..Len(es) : es[i].departmentCode = cand.departmentCode]

\* the number of tokens each candidate shares with the input, in the order
\* of the candidates
CandidateShares(es, qt) ==
    [i \in 1..Len(d_ret.res.candidates) |-> Shared(EntryOf(es, d_ret.res.candidates[i]), qt)]

CandidateCodes ==
    { d_ret.res.candidates[i].departmentCode : i \in 1..Len(d_ret.res.candidates) }

\* C15: the candidates are at most 5, each shares a token with the
\* normalized input, they are in non-increasing order of score, and no
\* entry left out scores strictly higher than one that is in the list.
C15_CandidatesAreTopFive ==
    MapDone =>
        \A es \in {LedgerEntries}, qt \in {QueryTokens} :
            \A cands \in {d_ret.res.candidates}, sh \in {CandidateShares(es, qt)} :
                /\ Len(cands) <= 5
                /\ \A i \in 1..Len(cands) :
                      /\ \E k \in 1..Len(es) :
                            /\ es[k].departmentCode = cands[i].departmentCode
                            /\ es[k].departmentName = cands[i].departmentName
                      /\ sh[i] >= 1
                /\ \A i \in 1..Len(cands), j \in 1..Len(cands) : i < j => sh[i] >= sh[j]
                /\ \A k \in 1..Len(es), i \in 1..Len(cands) :
                      es[k].departmentCode \notin CandidateCodes =>
                          Shared(es[k], qt) <= sh[i]

\* C15 witness: five candidates of seven departments that share tokens with
\* the input, the first with a higher score than the last
C15_Witness ==
    /\ MapDone
    /\ Len(d_ret.res.candidates) = 5
    /\ Cardinality({ k \in 1..Len(LedgerEntries) :
                        Shared(LedgerEntries[k], QueryTokens) >= 1 }) = 7
    /\ CandidateShares(LedgerEntries, QueryTokens)[1]
          > CandidateShares(LedgerEntries, QueryTokens)[5]
----------------------------------------------------------------------------
(* _load_dept_email_overrides, _department_name_for_code, _get_first_str *)

\* a dict of str to str, as a function; {} is the function of no key
EmptyDict == [k \in {} |-> <<>>]

\* d[key] = value
DictPut(d, key, value) ==
    [k \in DOMAIN d \cup {key} |-> IF k = key THEN value ELSE d[k]]

\* the environment variable set to raw: ok whether json.loads accepts the
\* text, value what it returns then
EnvText(raw, ok, value) == [set |-> TRUE, raw |-> raw, ok |-> ok, value |-> value]

\* a JSON object whose items are iterated: a sequence of [k, v]
JDict(items) == [t |-> "dict", items |-> items]

\* str(v or "")
StrOrEmpty(v) == IF Truthy(v) THEN PyStr(v) ELSE <<>>

\* the loop of lines 199-203
RECURSIVE OverridesFrom(_, _)
OverridesFrom(items, overrides) ==
    IF items = <<>> THEN overrides
    ELSE LET email == Lower(Strip(Head(items).k))
             code == Strip(StrOrEmpty(Head(items).v))
         IN  IF email /= <<>> /\ code /= <<>>
             THEN OverridesFrom(Tail(items), DictPut(overrides, email, code))
             ELSE OverridesFrom(Tail(items), overrides)

\* the dict _load_dept_email_overrides builds when the cache is empty
LoadOverrides(env) ==
    LET raw == IF env.set THEN Strip(env.raw) ELSE <<>>
    IN  IF raw = <<>> THEN EmptyDict
        ELSE IF ~env.ok THEN EmptyDict
        ELSE IF env.value.t /= "dict" THEN EmptyDict
        ELSE OverridesFrom(env.value.items, EmptyDict)

\* _load_dept_email_overrides(): the global after the call
OverridesAfterLoad(slot, env) ==
    IF slot.set THEN slot ELSE Slot(LoadOverrides(env))

\* _department_name_for_code(department_code) over the entries
\* _load_department_entries() returns
DepartmentNameForCode(department_code, entries) ==
    LET code == Strip(department_code)
        hits == { i \in 1..Len(entries) : entries[i].departmentCode = code }
    IN  IF code = <<>> THEN <<>>
        ELSE IF hits = {} THEN <<>>
        ELSE Strip(entries[CHOOSE i \in hits : \A j \in hits : i <= j].departmentName)

\* str(k).lower() of the keys the documents of the model have
LowerKey(k) ==
    CASE k = "Department" -> "department"
      [] k = "DisplayName" -> "displayname"
      [] k = "JobTitle" -> "jobtitle"
      [] k = "displayName" -> "displayname"
      [] k = "jobTitle" -> "jobtitle"
      [] OTHER -> k

\* the value a key holds when it is a str that is not blank once stripped
UsableStr(v) == v.t /= "null" /\ Strip(PyStr(v)) /= <<>>

\* lower_map[lower_key]: the documents of the model have no two keys that
\* differ in letter case only
LowerMapGet(obj, lower_key) ==
    LET ks == { k \in DOMAIN obj \ {"t"} : LowerKey(k) = lower_key }
    IN  IF ks = {} THEN JNull ELSE obj[CHOOSE k \in ks : TRUE]

\* _get_first_str(obj, *keys, default="")
RECURSIVE GetFirstStr(_, _)
GetFirstStr(obj, keys) ==
    IF ~IsDict(obj) \/ ~Truthy(obj) THEN <<>>
    ELSE IF keys = <<>> THEN <<>>
    ELSE IF UsableStr(Get(obj, Head(keys))) THEN Strip(PyStr(Get(obj, Head(keys))))
    ELSE IF UsableStr(LowerMapGet(obj, LowerKey(Head(keys))))
         THEN Strip(PyStr(LowerMapGet(obj, LowerKey(Head(keys)))))
    ELSE GetFirstStr(obj, Tail(keys))

\* a or b or ... or default over the values of the keys of obj
RECURSIVE FirstTruthy(_, _, _)
FirstTruthy(obj, keys, default) ==
    IF keys = <<>> THEN default
    ELSE IF Truthy(Get(obj, Head(keys))) THEN Get(obj, Head(keys))
    ELSE FirstTruthy(obj, Tail(keys), default)

----------------------------------------------------------------------------
(* orgchart_lookup and orgchart_lookup_upn *)

\* lines 899-905 and 992-998: the chunk of the document, parsed when it is
\* a str that starts with "{" and json.loads accepts it
ChunkObj(doc) ==
    LET chunk_raw == Get(doc, "chunk")
    IN  IF /\ IsStr(chunk_raw)
           /\ LStrip(chunk_raw.s) /= <<>>
           /\ Head(LStrip(chunk_raw.s)) = "{"
           /\ ~JsonLoadsRaises(chunk_raw)
        THEN JsonLoads(chunk_raw)
        ELSE JEmptyObj

EmailKeys == <<"email", "upn", "userPrincipalName", "mail", "Email", "UPN", "Mail">>

\* resolved_email of lines 907-923
ResolvedEmail(doc, email) ==
    LET in_doc == FirstTruthy(doc, EmailKeys, JNull)
    IN  IF Truthy(in_doc) THEN in_doc
        ELSE FirstTruthy(ChunkObj(doc), EmailKeys, JStr(email))

\* department_name of line 926
LookupDepartmentName(doc) ==
    LET in_doc == FirstTruthy(doc, <<"department", "Department">>, JNull)
    IN  IF Truthy(in_doc) THEN in_doc
        ELSE FirstTruthy(ChunkObj(doc), <<"Department", "department">>, JStr(<<>>))

\* display_name and job_title of lines 924-925
LookupDisplayName(doc) ==
    LET in_doc == FirstTruthy(doc, <<"displayName", "name", "fullName">>, JNull)
    IN  IF Truthy(in_doc) THEN in_doc
        ELSE FirstTruthy(ChunkObj(doc), <<"DisplayName", "displayName">>, JStr(<<>>))

LookupJobTitle(doc) ==
    LET in_doc == FirstTruthy(doc, <<"jobTitle", "title">>, JNull)
    IN  IF Truthy(in_doc) THEN in_doc
        ELSE FirstTruthy(ChunkObj(doc), <<"JobTitle", "jobTitle">>, JStr(<<>>))

\* the key looked up in the overrides, taken as the email is written
OverrideKeyAsWritten(email) == Strip(email)

\* resolved_email_lc of line 932, upn_lc of line 1005
OverrideKey(email) == Lower(Strip(email))

\* lines 934 and 1007
OverrideApplies(key, overrides) ==
    /\ key /= <<>>
    /\ overrides /= EmptyDict
    /\ key \in DOMAIN overrides

\* lines 930-942 and 1003-1015: the department of the response. entries is
\* what _load_department_entries() returns where the branch taken calls it
DepartmentOf(key, overrides, department_name, entries) ==
    IF OverrideApplies(key, overrides)
    THEN [dept_override_used |-> TRUE,
          res |-> Resolution(Strip(overrides[key]),
                             IF DepartmentNameForCode(Strip(overrides[key]), entries) /= <<>>
                             THEN DepartmentNameForCode(Strip(overrides[key]), entries)
                             ELSE Strip(department_name),
                             "exact", <<>>)]
    ELSE [dept_override_used |-> FALSE,
          res |-> MapDepartmentNameToCode(department_name, entries)]

\* the branch taken reads the department entries
DepartmentReadsLedger(key, overrides, department_name) ==
    \/ /\ OverrideApplies(key, overrides)
       /\ Strip(overrides[key]) /= <<>>
    \/ /\ ~OverrideApplies(key, overrides)
       /\ ~ReturnsBeforeLedger(department_name)

\* the responses before the directory has given a document
RequiredResponse == [ok |-> FALSE, found |-> FALSE, error |-> "required"]

SearchErrorResponse(email) ==
    [ok |-> FALSE, found |-> FALSE, email |-> Strip(Lower(email)), error |-> "search"]

NotFoundResponse(email) == [ok |-> TRUE, found |-> FALSE, email |-> Strip(Lower(email))]

\* the payload of lines 944-955 and 1017-1028
FoundResponse(email, display_name, job_title, department_name, dept) ==
    [ok |-> TRUE,
     found |-> TRUE,
     email |-> email,
     displayName |-> display_name,
     jobTitle |-> job_title,
     departmentName |-> department_name,
     departmentCode |-> dept.res.departmentCode,
     departmentNameMapped |-> dept.res.departmentName,
     departmentMatchType |-> dept.res.matchType,
     departmentCandidates |-> dept.res.candidates,
     dept_override_used |-> dept.dept_override_used]
----------------------------------------------------------------------------
(* Inputs of the directory lookups *)

\* ORGCHART_DEPT_EMAIL_OVERRIDES: a map with a key in mixed case, a code
\* given as a number and a blank code; text that is not JSON; a JSON list;
\* blanks
OverrideMapEnv ==
    EnvText(<<"{", "m", "a", "p", "}">>, TRUE,
            JDict(<<[k |-> <<" ", "B", "o", "b", "@", "C", "o", "r", "e", ".", "c", "o", "o", "p", " ">>, v |-> JStr(<<" ", "6", "2", "0", " ">>)],
                    [k |-> <<"a", "m", "y", "@", "c", "o", "r", "e", ".", "c", "o", "o", "p">>, v |-> JNum(180000)],
                    [k |-> <<"z", "e", "d", "@", "c", "o", "r", "e", ".", "c", "o", "o", "p">>, v |-> JStr(<<" ">>)]>>))

OverrideEnvs ==
    { UnsetEnv,
      OverrideMapEnv,
      EnvText(<<"{", "o", "o", "p", "s">>, FALSE, JNull),
      EnvText(<<"[", "l", "i", "s", "t", "]">>, TRUE, JList(<<JStr(<<"b", "o", "b", "@", "c", "o", "r", "e", ".", "c", "o", "o", "p">>)>>)),
      EnvText(<<" ", " ">>, FALSE, JNull) }

OrgchartLedgers ==
    { MissingFile,
      LedgerFile(LowerHeaders, <<DeptRecord(<<"1", "7", "5", " ", "-", " ", "P", "O", "W", "E", "R", " ", "&", " ", "L", "I", "G", "H", "T">>),
                                 DeptRecord(<<"6", "2", "0", " ", "-", " ", "I", "N", "F", "O", "R", "M", "A", "T", "I", "O", "N", " ", "T", "E", "C", "H", "N", "O", "L", "O", "G", "Y">>)>>) }

\* the email or upn parameter of the request
EmailParams == { <<>>, <<" ", "B", "O", "B", "@", "c", "o", "r", "e", ".", "c", "o", "o", "p">>, <<"a", "m", "y", "@", "c", "o", "r", "e", ".", "c", "o", "o", "p">>, <<"z", "e", "d", "@", "c", "o", "r", "e", ".", "c", "o", "o", "p">> }

\* the chunk field of a directory document
DocChunks ==
    { JNull,
      JText(<<"{", "c", "h", "u", "n", "k", "}">>, TRUE,
            [t |-> "obj",
             mail |-> JStr(<<"a", "m", "y", "@", "c", "o", "r", "e", ".", "c", "o", "o", "p">>),
             department |-> JStr(<<" ", "I", "n", "f", "o", "r", "m", "a", "t", "i", "o", "n", " ", "T", "e", "c", "h", "n", "o", "l", "o", "g", "y", " ">>),
             DisplayName |-> JStr(<<"A", "m", "y">>)]),
      JText(<<"{", "o", "o", "p", "s">>, FALSE, JNull) }

DocEmails == { JNull, JStr(<<"B", "o", "b", "@", "C", "o", "r", "e", ".", "c", "o", "o", "p", " ">>) }

DocDepartments == { JNull, JStr(<<"P", "o", "w", "e", "r", " ", "&", " ", "L", "i", "g", "h", "t">>) }

\* a document of the directory index; None fields are missing keys
DirectoryDoc(email, department, chunk) ==
    LET ks == {"t"} \cup (IF email = JNull THEN {} ELSE {"email"})
                    \cup (IF department = JNull THEN {} ELSE {"Department"})
                    \cup (IF chunk = JNull THEN {} ELSE {"chunk"})
    IN  [k \in ks |-> CASE k = "t" -> "obj"
                        [] k = "email" -> email
                        [] k = "Department" -> department
                        [] OTHER -> chunk]

DirectoryDocs ==
    { DirectoryDoc(e, d, c) : e \in DocEmails, d \in DocDepartments, c \in DocChunks }

\* what _orgchart_search_by_email returns: (doc, err, attempts)
SearchOutcomes ==
    { [err |-> TRUE, doc |-> JNull], [err |-> FALSE, doc |-> JNull] }
    \cup { [err |-> FALSE, doc |-> d] : d \in DirectoryDocs }

OrgchartCalls ==
    { [op |-> o, email |-> e, search |-> s]
        : o \in {"orgchart_lookup", "orgchart_lookup_upn"},
          e \in EmailParams, s \in SearchOutcomes }

\* a fresh process and one request to a directory lookup
OrgchartInit ==
    /\ ledger \in OrgchartLedgers
    /\ env_overrides \in OverrideEnvs
    /\ ROWS = NoneSlot
    /\ DEPT_ENTRIES = NoneSlot
    /\ DEPT_EMAIL_OVERRIDES = NoneSlot
    /\ load_count = NoLoads
    /\ d_pc = "call"
    /\ d_call \in OrgchartCalls
    /\ d_ret = [op |-> "none"]
    /\ th = <<>>
    /\ RefIdle
    /\ ImportIdle

\* the responses given before the overrides are read
EarlyResponse(email, search) ==
    /\ d_ret' = (IF email = <<>> THEN RequiredResponse
                 ELSE IF search.err THEN SearchErrorResponse(email)
                 ELSE NotFoundResponse(email))
    /\ UNCHANGED <<DEPT_ENTRIES, DEPT_EMAIL_OVERRIDES, load_count>>

\* lines 928-956 and 1003-1029: the overrides are loaded, then the
\* department entries when the branch taken reads them
FoundPath(key, email_out, display_name, job_title, department_name, name_out) ==
    \E oslot \in {OverridesAfterLoad(DEPT_EMAIL_OVERRIDES, env_overrides)} :
    \E reads \in {DepartmentReadsLedger(key, oslot.value, department_name)} :
    \E eslot \in {IF reads THEN EntriesAfterLoad(DEPT_ENTRIES, ledger) ELSE DEPT_ENTRIES} :
        /\ DEPT_EMAIL_OVERRIDES' = oslot
        /\ DEPT_ENTRIES' = eslot
        /\ load_count' =
             [load_count EXCEPT
                !.overrides = @ + (IF DEPT_EMAIL_OVERRIDES.set THEN 0 ELSE 1),
                !.entries = @ + (IF reads /\ ~DEPT_ENTRIES.set THEN 1 ELSE 0)]
        /\ d_ret' = FoundResponse(email_out, display_name, job_title, name_out,
                                  DepartmentOf(key, oslot.value, department_name,
                                               IF reads THEN eslot.value ELSE <<>>))

\* orgchart_lookup(req), the debug parameter left out
OrgchartLookup ==
    /\ d_pc = "call"
    /\ d_call.op = "orgchart_lookup"
    /\ d_pc' = "done"
    /\ LET email == Strip(d_call.email)
           doc == d_call.search.doc
       IN  IF email = <<>> \/ d_call.search.err \/ ~Truthy(doc)
           THEN EarlyResponse(email, d_call.search)
           ELSE \E resolved_email \in {PyStr(ResolvedEmail(doc, email))} :
                \E department_name \in {PyStr(LookupDepartmentName(doc))} :
                    FoundPath(OverrideKey(resolved_email),
                              Lower(Strip(resolved_email)),
                              Strip(PyStr(LookupDisplayName(doc))),
                              Strip(PyStr(LookupJobTitle(doc))),
                              department_name,
                              Strip(department_name))
    /\ UNCHANGED <<ledger, env_overrides, ROWS, d_call, th>>
    /\ UNCHANGED refVars
    /\ UNCHANGED importVars

\* orgchart_lookup_upn(req), the debug parameter left out
OrgchartLookupUpn ==
    /\ d_pc = "call"
    /\ d_call.op = "orgchart_lookup_upn"
    /\ d_pc' = "done"
    /\ LET upn == Strip(d_call.email)
           doc == d_call.search.doc
       IN  IF upn = <<>> \/ d_call.search.err \/ ~Truthy(doc)
           THEN EarlyResponse(upn, d_call.search)
           ELSE \E chunk_obj \in {ChunkObj(doc)} :
                \E department_name \in {GetFirstStr(chunk_obj, <<"Department", "department">>)} :
                    FoundPath(OverrideKey(upn),
                              Strip(Lower(upn)),
                              GetFirstStr(chunk_obj, <<"DisplayName", "displayName">>),
                              GetFirstStr(chunk_obj, <<"JobTitle", "jobTitle">>),
                              department_name,
                              department_name)
    /\ UNCHANGED <<ledger, env_overrides, ROWS, d_call, th>>
    /\ UNCHANGED refVars
    /\ UNCHANGED importVars

OrgchartNext == OrgchartLookup \/ OrgchartLookupUpn

SpecOrgchart == OrgchartInit /\ [][OrgchartNext]_vars
----------------------------------------------------------------------------
(* Claims about the directory lookups *)

\* a lookup has answered for a document the directory returned
LookupFound ==
    /\ d_pc = "done"
    /\ d_call.op \in {"orgchart_lookup", "orgchart_lookup_upn"}
    /\ d_ret.found

\* the override map the configuration gives: the cache after its one load
OverrideMap == DEPT_EMAIL_OVERRIDES.value

\* C16: in orgchart_lookup and orgchart_lookup_upn, when the lower-cased
\* resolved email of the response is a key of the override map, the
\* response has the mapped code, match type exact and no candidates,
\* whatever department name the directory gave, and the branch taken is the
\* override's, not _map_department_name_to_code
C16_OverrideForcesExact ==
    (LookupFound /\ d_ret.email \in DOMAIN OverrideMap)
        => /\ d_ret.departmentCode = OverrideMap[d_ret.email]
           /\ d_ret.departmentMatchType = "exact"
           /\ d_ret.departmentCandidates = <<>>
           /\ d_ret.dept_override_used

\* an override applied to an email the directory wrote in mixed case, over
\* a department name that alone resolves to another code
C16_Witness ==
    /\ LookupFound
    /\ d_call.op = "orgchart_lookup"
    /\ d_ret.email = <<"b", "o", "b", "@", "c", "o", "r", "e", ".", "c", "o", "o", "p">>
    /\ d_ret.email \in DOMAIN OverrideMap
    /\ d_ret.departmentCode = <<"6", "2", "0">>
    /\ d_ret.departmentName = <<"P", "o", "w", "e", "r", " ", "&", " ", "L", "i", "g", "h", "t">>
    /\ d_ret.departmentNameMapped = <<"I", "N", "F", "O", "R", "M", "A", "T", "I", "O", "N", " ", "T", "E", "C", "H", "N", "O", "L", "O", "G", "Y">>
    /\ "Department" \in DOMAIN d_call.search.doc
    /\ ledger /= MissingFile
----------------------------------------------------------------------------
(* expense_codes and the caches over a source that changes *)

\* the de-dupe loop of lines 1175-1182: the first match of each accountCode
RECURSIVE Uniq(_, _)
Uniq(matches, seen) ==
    IF matches = <<>> THEN <<>>
    ELSE IF Head(matches).accountCode \in seen THEN Uniq(Tail(matches), seen)
    ELSE <<Head(matches)>> \o Uniq(Tail(matches), seen \cup {Head(matches).accountCode})

\* the list comprehension of lines 1168-1172
RECURSIVE MatchesOf(_, _, _)
MatchesOf(rs, dept, act) ==
    IF rs = <<>> THEN <<>>
    ELSE (IF Head(rs).departmentCode = dept /\ Head(rs).activityCode = act
          THEN <<[accountCode |-> Head(rs).accountCode,
                  description |-> Head(rs).description]>>
          ELSE <<>>)
         \o MatchesOf(Tail(rs), dept, act)

\* the response of expense_codes over rs, the list _ROWS holds
ExpenseCodesResponse(rs, departmentCode, activityCode) ==
    LET dept == Strip(departmentCode)
        act == Strip(activityCode)
    IN  IF dept = <<>> \/ act = <<>>
        THEN [status |-> 400, error |-> "required"]
        ELSE [status |-> 200, departmentCode |-> dept, activityCode |-> act,
              matches |-> Uniq(MatchesOf(rs, dept, act), {})]

\* a record of the ledger
LedgerRecord(department, activity, account) == <<department, activity, account>>

\* the ledger at the start and the ledgers that replace it: no file, a
\* department with an account listed twice, another department
CacheLedgers ==
    { MissingFile,
      LedgerFile(LowerHeaders,
                 <<DeptRecord(<<"6", "2", "0", " ", "-", " ", "I", "N", "F", "O", "R", "M", "A", "T", "I", "O", "N", " ", "T", "E", "C", "H", "N", "O", "L", "O", "G", "Y">>),
                   LedgerRecord(<<"6", "2", "0", " ", "-", " ", "I", "N", "F", "O", "R", "M", "A", "T", "I", "O", "N", " ", "T", "E", "C", "H", "N", "O", "L", "O", "G", "Y">>, <<"7", "0", "0", " ", "-", " ", "T", "R", "A", "V", "E", "L">>, <<"5", "5", "0", "0", " ", "-", " ", "F", "E", "E", "S", " ", "A", "G", "A", "I", "N">>),
                   LedgerRecord(<<"6", "2", "0", " ", "-", " ", "I", "N", "F", "O", "R", "M", "A", "T", "I", "O", "N", " ", "T", "E", "C", "H", "N", "O", "L", "O", "G", "Y">>, <<"7", "0", "0", " ", "-", " ", "T", "R", "A", "V", "E", "L">>, <<"5", "5", "1", "0", " ", "-", " ", "M", "E", "A", "L", "S">>)>>),
      LedgerFile(LowerHeaders, <<DeptRecord(<<"1", "7", "5", " ", "-", " ", "P", "O", "W", "E", "R", " ", "&", " ", "L", "I", "G", "H", "T">>)>>) }

CacheEnvs == { UnsetEnv, OverrideMapEnv, EnvText(<<"{", "o", "o", "p", "s">>, FALSE, JNull) }

\* the departmentCode and activityCode parameters of expense_codes
DepartmentParams == { <<>>, <<" ", "6", "2", "0", " ">>, <<"1", "7", "5">> }

ActivityParams == { <<>>, <<"7", "0", "0">> }

\* a fresh process
CacheInit ==
    /\ ledger \in CacheLedgers
    /\ env_overrides \in CacheEnvs
    /\ ROWS = NoneSlot
    /\ DEPT_ENTRIES = NoneSlot
    /\ DEPT_EMAIL_OVERRIDES = NoneSlot
    /\ load_count = NoLoads
    /\ d_pc = "idle"
    /\ d_call = [op |-> "none"]
    /\ d_ret = [op |-> "none"]
    /\ th = <<>>
    /\ RefIdle
    /\ ImportIdle

\* a call of _load_department_entries()
CallLoadDepartmentEntries ==
    \E slot \in {EntriesAfterLoad(DEPT_ENTRIES, ledger)} :
        /\ DEPT_ENTRIES' = slot
        /\ load_count' = CountAfterLoad(DEPT_ENTRIES, "entries")
        /\ d_pc' = "done"
        /\ d_call' = [op |-> "entries"]
        /\ d_ret' = [op |-> "entries", value |-> slot.value]
        /\ UNCHANGED <<ledger, env_overrides, ROWS, DEPT_EMAIL_OVERRIDES, th>>
        /\ UNCHANGED refVars
        /\ UNCHANGED importVars

\* a call of _load_dept_email_overrides()
CallLoadDeptEmailOverrides ==
    \E slot \in {OverridesAfterLoad(DEPT_EMAIL_OVERRIDES, env_overrides)} :
        /\ DEPT_EMAIL_OVERRIDES' = slot
        /\ load_count' = CountAfterLoad(DEPT_EMAIL_OVERRIDES, "overrides")
        /\ d_pc' = "done"
        /\ d_call' = [op |-> "overrides"]
        /\ d_ret' = [op |-> "overrides", value |-> slot.value]
        /\ UNCHANGED <<ledger, env_overrides, ROWS, DEPT_ENTRIES, th>>
        /\ UNCHANGED refVars
        /\ UNCHANGED importVars

\* expense_codes(req)
ExpenseCodes ==
    \E departmentCode \in DepartmentParams, activityCode \in ActivityParams :
    \E slot \in {RowsAfterLoad(ROWS, ledger)} :
        /\ ROWS' = slot
        /\ load_count' = CountAfterLoad(ROWS, "rows")
        /\ d_pc' = "done"
        /\ d_call' = [op |-> "expense_codes",
                      departmentCode |-> departmentCode,
                      activityCode |-> activityCode]
        /\ d_ret' = [op |-> "expense_codes",
                     value |-> ExpenseCodesResponse(slot.value, departmentCode, activityCode)]
        /\ UNCHANGED <<ledger, env_overrides, DEPT_ENTRIES, DEPT_EMAIL_OVERRIDES, th>>
        /\ UNCHANGED refVars
        /\ UNCHANGED importVars

\* the file at CSV_PATH is replaced, removed or created while the process
\* runs
ReplaceLedger ==
    /\ ledger' \in CacheLedgers \ {ledger}
    /\ d_pc' = "changed"
    /\ UNCHANGED <<env_overrides, ROWS, DEPT_ENTRIES, DEPT_EMAIL_OVERRIDES,
                   load_count, d_call, d_ret, th>>
    /\ UNCHANGED refVars
    /\ UNCHANGED importVars

\* ORGCHART_DEPT_EMAIL_OVERRIDES is set anew while the process runs
SetOverridesEnv ==
    /\ env_overrides' \in CacheEnvs \ {env_overrides}
    /\ d_pc' = "changed"
    /\ UNCHANGED <<ledger, ROWS, DEPT_ENTRIES, DEPT_EMAIL_OVERRIDES,
                   load_count, d_call, d_ret, th>>
    /\ UNCHANGED refVars
    /\ UNCHANGED importVars

CacheNext ==
    \/ CallLoadDepartmentEntries
    \/ CallLoadDeptEmailOverrides
    \/ ExpenseCodes
    \/ ReplaceLedger
    \/ SetOverridesEnv

SpecCache == CacheInit /\ [][CacheNext]_vars
----------------------------------------------------------------------------
(* Claims about the caches *)

\* the step is a call of the named operation
CallOf(op) == d_pc' = "done" /\ d_call'.op = op

\* C17: each cache (reference rows, department entries, email overrides)
\* is populated at most once: in every step, a slot that holds a value,
\* the empty one of a missing source included, keeps it, a call answers
\* from that value, and no loader has run twice, although the ledger and
\* the configuration change between calls
C17_CachesLoadOnce ==
    [][ /\ ROWS.set => ROWS' = ROWS
        /\ DEPT_ENTRIES.set => DEPT_ENTRIES' = DEPT_ENTRIES
        /\ DEPT_EMAIL_OVERRIDES.set => DEPT_EMAIL_OVERRIDES' = DEPT_EMAIL_OVERRIDES
        /\ (DEPT_ENTRIES.set /\ CallOf("entries"))
              => d_ret'.value = DEPT_ENTRIES.value
        /\ (DEPT_EMAIL_OVERRIDES.set /\ CallOf("overrides"))
              => d_ret'.value = DEPT_EMAIL_OVERRIDES.value
        /\ (ROWS.set /\ CallOf("expense_codes"))
              => d_ret'.value = ExpenseCodesResponse(ROWS.value,
                                                     d_call'.departmentCode,
                                                     d_call'.activityCode)
        /\ \A name \in DOMAIN load_count : load_count'[name] <= 1
      ]_vars

\* the three caches hold what was loaded when there was no ledger and no
\* configuration, and calls made after both appeared were answered from
\* them: the last one, of _load_department_entries, with the empty list
C17_Witness ==
    /\ ledger /= MissingFile
    /\ env_overrides = OverrideMapEnv
    /\ ROWS = Slot(<<>>)
    /\ DEPT_ENTRIES = Slot(<<>>)
    /\ DEPT_EMAIL_OVERRIDES = Slot(EmptyDict)
    /\ LoadDepartmentEntries(ledger) /= <<>>
    /\ d_pc = "done"
    /\ d_call.op = "entries"
    /\ d_ret.value = <<>>
    /\ load_count = [rows |-> 1, entries |-> 1, overrides |-> 1]
----------------------------------------------------------------------------
(* Concurrent first calls of _load_department_entries and
   _load_dept_email_overrides: one step per read or write of the global and
   per turn of the loop *)

\* most threads calling at once
MaxCallers == 2

\* the global a loader caches in
GlobalOf(loader) ==
    IF loader = "entries" THEN DEPT_ENTRIES ELSE DEPT_EMAIL_OVERRIDES

\* a thread at the first line of a loader: local is the list or dict it
\* builds, todo the records or items its loop has still to read, ret the
\* value returned
ThreadAt(loader) ==
    [loader |-> loader, pc |-> "check", local |-> <<>>, todo |-> <<>>, ret |-> NoneSlot]

\* the global while a thread builds its local list: the loop writes to the
\* local only (the global would hold the list being built if the loop
\* appended to it)
GlobalSharedWhileLoading(slot, local) == Slot(local)

GlobalWhileLoading(slot, local) == slot

\* the global after the step of a thread on loader
SetGlobal(loader, slot) ==
    /\ DEPT_ENTRIES' = IF loader = "entries" THEN slot ELSE DEPT_ENTRIES
    /\ DEPT_EMAIL_OVERRIDES' = IF loader = "entries" THEN DEPT_EMAIL_OVERRIDES ELSE slot

\* what the steps of the threads leave alone
RaceFrame ==
    /\ UNCHANGED <<ledger, env_overrides, ROWS, d_pc, d_call, d_ret>>
    /\ UNCHANGED refVars
    /\ UNCHANGED importVars

\* lines 150 and 190: the test of the global
Check(i) ==
    /\ th[i].pc = "check"
    /\ IF GlobalOf(th[i].loader).set
       THEN /\ th' = [th EXCEPT ![i].pc = "return"]
            /\ UNCHANGED load_count
       ELSE /\ th' = [th EXCEPT ![i].pc = "open"]
            /\ load_count' = [load_count EXCEPT ![th[i].loader] = @ + 1]
    /\ UNCHANGED <<DEPT_ENTRIES, DEPT_EMAIL_OVERRIDES>>
    /\ RaceFrame

\* lines 153-159: the file is opened, or found missing and the empty list
\* stored
OpenLedger(i) ==
    /\ th[i].pc = "open"
    /\ th[i].loader = "entries"
    /\ IF ~ledger.exists
       THEN /\ th' = [th EXCEPT ![i].pc = "return"]
            /\ SetGlobal("entries", Slot(<<>>))
       ELSE /\ th' = [th EXCEPT ![i].pc = "loop", ![i].todo = ledger.records]
            /\ UNCHANGED <<DEPT_ENTRIES, DEPT_EMAIL_OVERRIDES>>
    /\ UNCHANGED load_count
    /\ RaceFrame

\* lines 193-198: the variable is read and parsed
ParseEnv(i) ==
    /\ th[i].pc = "open"
    /\ th[i].loader = "overrides"
    /\ LET raw == IF env_overrides.set THEN Strip(env_overrides.raw) ELSE <<>>
           items == IF raw /= <<>> /\ env_overrides.ok /\ env_overrides.value.t = "dict"
                    THEN env_overrides.value.items ELSE <<>>
       IN  th' = [th EXCEPT ![i].pc = "loop", ![i].local = EmptyDict, ![i].todo = items]
    /\ UNCHANGED <<DEPT_ENTRIES, DEPT_EMAIL_OVERRIDES, load_count>>
    /\ RaceFrame

\* lines 160-174 and 199-203: one turn of the loop
Loop(i) ==
    /\ th[i].pc = "loop"
    /\ th[i].todo /= <<>>
    /\ \E local \in {IF th[i].loader = "entries"
                     THEN LoadEntriesFrom(ledger.headers, <<Head(th[i].todo)>>, th[i].local,
                                          { th[i].local[k].departmentCode
                                              : k \in 1..Len(th[i].local) })
                     ELSE OverridesFrom(<<Head(th[i].todo)>>, th[i].local)} :
          /\ th' = [th EXCEPT ![i].local = local, ![i].todo = Tail(@)]
          /\ SetGlobal(th[i].loader, GlobalWhileLoading(GlobalOf(th[i].loader), local))
    /\ UNCHANGED load_count
    /\ RaceFrame

\* lines 176 and 208: the list or dict built is stored in the global
Assign(i) ==
    /\ th[i].pc = "loop"
    /\ th[i].todo = <<>>
    /\ th' = [th EXCEPT ![i].pc = "return"]
    /\ SetGlobal(th[i].loader, Slot(th[i].local))
    /\ UNCHANGED load_count
    /\ RaceFrame

\* lines 151, 157, 177, 191 and 209: the global is read and returned
Return(i) ==
    /\ th[i].pc = "return"
    /\ th' = [th EXCEPT ![i].pc = "done", ![i].ret = Slot(GlobalOf(th[i].loader).value)]
    /\ UNCHANGED <<DEPT_ENTRIES, DEPT_EMAIL_OVERRIDES, load_count>>
    /\ RaceFrame

\* ledgers of the concurrent calls: no file; records of which one has no
\* name and one repeats a code
RaceLedgers ==
    { MissingFile,
      LedgerFile(LowerHeaders, <<DeptRecord(<<"6", "2", "0", " ", "-", " ", "I", "N", "F", "O", "R", "M", "A", "T", "I", "O", "N", " ", "T", "E", "C", "H", "N", "O", "L", "O", "G", "Y">>),
                                 DeptRecord(<<"4", "0", "0">>),
                                 DeptRecord(<<"6", "2", "0", " ", "-", " ", "H", "E", "L", "P", " ", "D", "E", "S", "K">>),
                                 DeptRecord(<<"1", "7", "5", " ", "-", " ", "P", "O", "W", "E", "R", " ", "&", " ", "L", "I", "G", "H", "T">>)>>) }

RaceEnvs == { UnsetEnv, OverrideMapEnv, EnvText(<<"{", "o", "o", "p", "s">>, FALSE, JNull) }

\* a fresh process in which two or more threads call the loaders at once
RaceInit ==
    /\ ledger \in RaceLedgers
    /\ env_overrides \in RaceEnvs
    /\ ROWS = NoneSlot
    /\ DEPT_ENTRIES = NoneSlot
    /\ DEPT_EMAIL_OVERRIDES = NoneSlot
    /\ load_count = NoLoads
    /\ d_pc = "idle"
    /\ d_call = [op |-> "none"]
    /\ d_ret = [op |-> "none"]
    /\ \E n \in 2..MaxCallers :
          th \in [1..n -> { ThreadAt(l) : l \in {"entries", "overrides"} }]
    /\ RefIdle
    /\ ImportIdle

RaceNext ==
    \E i \in DOMAIN th :
        \/ Check(i)
        \/ OpenLedger(i)
        \/ ParseEnv(i)
        \/ Loop(i)
        \/ Assign(i)
        \/ Return(i)

SpecRace == RaceInit /\ [][RaceNext]_vars
----------------------------------------------------------------------------
(* Claims about concurrent first calls *)

\* the value one load of the unchanged source gives
FullLoad(loader) ==
    IF loader = "entries" THEN LoadDepartmentEntries(ledger)
    ELSE LoadOverrides(env_overrides)

\* the threads that called loader
CallersOf(loader) == { i \in DOMAIN th : th[i].loader = loader }

\* C18: under every interleaving of two or more concurrent first calls of a
\* loader over an unchanged source, every caller is returned the complete
\* value one load of the source gives, the global never holds anything
\* else (no partly built list is visible), two callers never get different
\* values, and the global holds that value once the callers are done
C18_ConcurrentFirstCallsAgree ==
    \A loader \in {"entries", "overrides"} :
    \A full \in {FullLoad(loader)} :
        /\ GlobalOf(loader).set => GlobalOf(loader).value = full
        /\ \A i \in CallersOf(loader) : th[i].pc = "done" => th[i].ret = Slot(full)
        /\ \A i, j \in CallersOf(loader) :
              (th[i].pc = "done" /\ th[j].pc = "done") => th[i].ret = th[j].ret
        /\ (CallersOf(loader) /= {} /\ \A i \in CallersOf(loader) : th[i].pc = "done")
              => GlobalOf(loader) = Slot(full)

\* two threads both found the entries cache empty, one has stored its
\* list and returned, the other is in the middle of building its own
C18_Witness ==
    /\ Len(LoadDepartmentEntries(ledger)) = 2
    /\ load_count.entries = 2
    /\ \E i, j \in CallersOf("entries") :
          /\ th[i].pc = "done"
          /\ th[i].ret = Slot(LoadDepartmentEntries(ledger))
          /\ th[j].pc = "loop"
          /\ Len(th[j].local) = 1
          /\ Len(th[j].todo) = 2
----------------------------------------------------------------------------
(* The ledger loaders over sources of every shape *)

\* longest source built from the pool of records
MaxSourceRecords == 2

\* header lines: lower case, mixed case, and the order of the docstring of
\* _load_rows
MixedHeaders == <<<<"D", "e", "p", "a", "r", "t", "m", "e", "n", "t">>, <<"A", "C", "T", "I", "V", "I", "T", "Y">>, <<"A", "c", "c", "o", "u", "n", "t">>>>

DocstringHeaders == <<<<"a", "c", "t", "i", "v", "i", "t", "y">>, <<"a", "c", "c", "o", "u", "n", "t">>, <<"d", "e", "p", "a", "r", "t", "m", "e", "n", "t">>>>

HeaderLines == { LowerHeaders, MixedHeaders, DocstringHeaders }

\* the cells of the three fields: with code and name, with a code only,
\* blank
DepartmentCells == { <<"6", "2", "0", " ", "-", " ", "I", "T">>, <<"4", "0", "0">>, <<>> }

ActivityCells == { <<"7", "0", "0", " ", "-", " ", "T", "R", "A", "V", "E", "L">>, <<>> }

AccountCells == { <<"5", "5", "0", "0", " ", "-", " ", "F", "E", "E", "S">>, <<>> }

\* the record whose cells stand under the headers named, in any letter
\* case, department, activity and account
RecordUnder(headers, department, activity, account) ==
    [i \in 1..Len(headers) |->
        CASE Lower(headers[i]) = <<"d", "e", "p", "a", "r", "t", "m", "e", "n", "t">> -> department
          [] Lower(headers[i]) = <<"a", "c", "t", "i", "v", "i", "t", "y">> -> activity
          [] OTHER -> account]

SourceRecords(headers) ==
    { RecordUnder(headers, d, a, c)
        : d \in DepartmentCells, a \in ActivityCells, c \in AccountCells }

SourceLedgers ==
    { MissingFile } \cup
    UNION { { LedgerFile(h, rs) : rs \in SeqsUpTo(SourceRecords(h), MaxSourceRecords) }
              : h \in HeaderLines }

\* a fresh process over a source
LedgerInit ==
    /\ ledger \in SourceLedgers
    /\ env_overrides = UnsetEnv
    /\ ROWS = NoneSlot
    /\ DEPT_ENTRIES = NoneSlot
    /\ DEPT_EMAIL_OVERRIDES = NoneSlot
    /\ load_count = NoLoads
    /\ d_pc = "idle"
    /\ d_call = [op |-> "none"]
    /\ d_ret = [op |-> "none"]
    /\ th = <<>>
    /\ RefIdle
    /\ ImportIdle

LedgerNext == CallLoadDepartmentEntries \/ ExpenseCodes

SpecLedger == LedgerInit /\ [][LedgerNext]_vars
----------------------------------------------------------------------------
(* Claims about the ledger loaders *)

\* the same source with its header names in lower case
WithLowerHeaders(file) ==
    [file EXCEPT !.headers = [i \in DOMAIN @ |-> Lower(@[i])]]

\* both caches are loaded
LedgerLoaded == ROWS.set /\ DEPT_ENTRIES.set

\* C19: the loaders find the department, activity and account fields
\* whatever the letter case of the header names: the rows and entries
\* loaded from a source are those loaded from the same source with
\* lower-case headers
C19_HeaderCaseIgnored ==
    LedgerLoaded =>
        /\ ROWS.value = LoadRows(WithLowerHeaders(ledger))
        /\ DEPT_ENTRIES.value = LoadDepartmentEntries(WithLowerHeaders(ledger))

\* the department codes of the loaded rows and of the loaded entries
RowCodes == { ROWS.value[i].departmentCode : i \in 1..Len(ROWS.value) }

EntryCodes == { DEPT_ENTRIES.value[i].departmentCode : i \in 1..Len(DEPT_ENTRIES.value) }

\* the department cells of the records of the source, split
SourceDepartments ==
    { SplitCodeAndDesc(RowGet(ledger.headers, ledger.records[i], <<"d", "e", "p", "a", "r", "t", "m", "e", "n", "t">>))
        : i \in 1..Len(ledger.records) }

\* C20 as stated: every departmentCode of a DepartmentEntry is the
\* departmentCode of a loaded ReferenceRow
C20_EntryCodesAreRowCodes ==
    LedgerLoaded => EntryCodes \subseteq RowCodes

\* C20 amended: the entries come from the department column alone: the
\* entry codes are the codes of the records whose department has a code
\* and a name, each entry bearing the name of such a record, whether or not
\* the record has an activity and an account code
C20_EntriesFromDepartmentColumn ==
    LedgerLoaded =>
        /\ EntryCodes = { d.code : d \in { s \in SourceDepartments :
                                             s.code /= <<>> /\ s.desc /= <<>> } }
        /\ \A i \in 1..Len(DEPT_ENTRIES.value) :
              \E d \in SourceDepartments :
                 /\ d.code = DEPT_ENTRIES.value[i].departmentCode
                 /\ d.desc = DEPT_ENTRIES.value[i].departmentName

\* a source whose only record has a department and no activity: no row is
\* loaded and the department has its entry
C20_Witness ==
    /\ LedgerLoaded
    /\ ledger.exists
    /\ Len(ledger.records) = 1
    /\ ROWS.value = <<>>
    /\ EntryCodes = { <<"6", "2", "0">> }
----------------------------------------------------------------------------
(* _parse_iso_date *)

\* date(y, m, d) does not raise
ValidDate(y, m, d) ==
    /\ y \in 1..9999
    /\ m \in 1..12
    /\ d >= 1
    /\ d <= DaysInMonth(y, m)

\* a date returned, and None
SomeDate(y, m, d) == [ok |-> TRUE, date |-> [y |-> y, m |-> m, d |-> d]]

NoDate == [ok |-> FALSE, date |-> [y |-> 0, m |-> 0, d |-> 0]]

\* date(y, m, d), None standing for the ValueError the caller passes over
TryDate(y, m, d) == IF ValidDate(y, m, d) THEN SomeDate(y, m, d) ELSE NoDate

PrevDay(dt) ==
    IF dt.d > 1 THEN [dt EXCEPT !.d = dt.d - 1]
    ELSE IF dt.m > 1 THEN [y |-> dt.y, m |-> dt.m - 1, d |-> DaysInMonth(dt.y, dt.m - 1)]
    ELSE [y |-> dt.y - 1, m |-> 12, d |-> 31]

\* dt - timedelta(days = n), n >= 0
RECURSIVE SubDays(_, _)
SubDays(dt, n) == IF n = 0 THEN dt ELSE SubDays(PrevDay(dt), n - 1)

\* days of the months of year y before month m
RECURSIVE DaysBeforeMonth(_, _)
DaysBeforeMonth(y, m) ==
    IF m = 1 THEN 0 ELSE DaysBeforeMonth(y, m - 1) + DaysInMonth(y, m - 1)

\* dt.toordinal(): 1 for 0001-01-01
ToOrdinal(dt) ==
    365 * (dt.y - 1) + ((dt.y - 1) \div 4) - ((dt.y - 1) \div 100) + ((dt.y - 1) \div 400)
    + DaysBeforeMonth(dt.y, dt.m) + dt.d

\* dt.weekday(): Monday is 0
Weekday(dt) == (ToOrdinal(dt) + 6) % 7

\* a > b on dates
DateAfter(a, b) ==
    \/ a.y > b.y
    \/ a.y = b.y /\ a.m > b.m
    \/ a.y = b.y /\ a.m = b.m /\ a.d > b.d

IsLowerLetter(c) == \E i \in 1..Len(LowerLetters) : LowerLetters[i] = c

\* length of the longest prefix of s of lower-case letters, of digits, of
\* blanks
RECURSIVE LettersLen(_)
LettersLen(s) == IF s /= <<>> /\ IsLowerLetter(Head(s)) THEN 1 + LettersLen(Tail(s)) ELSE 0

RECURSIVE DigitsLen(_)
DigitsLen(s) == IF s /= <<>> /\ IsDigit(Head(s)) THEN 1 + DigitsLen(Tail(s)) ELSE 0

RECURSIVE BlanksLen(_)
BlanksLen(s) == IF s /= <<>> /\ IsSpace(Head(s)) THEN 1 + BlanksLen(Tail(s)) ELSE 0

\* s[n:]
Drop(s, n) == SubSeq(s, n + 1, Len(s))

\* weekday_map: -1 for a word that is no key
WeekdayOf(w) ==
    CASE w \in {<<"m", "o", "n">>, <<"m", "o", "n", "d", "a", "y">>} -> 0
      [] w \in {<<"t", "u", "e">>, <<"t", "u", "e", "s">>, <<"t", "u", "e", "s", "d", "a", "y">>} -> 1
      [] w \in {<<"w", "e", "d">>, <<"w", "e", "d", "n", "e", "s", "d", "a", "y">>} -> 2
      [] w \in {<<"t", "h", "u">>, <<"t", "h", "u", "r">>, <<"t", "h", "u", "r", "s">>, <<"t", "h", "u", "r", "s", "d", "a", "y">>} -> 3
      [] w \in {<<"f", "r", "i">>, <<"f", "r", "i", "d", "a", "y">>} -> 4
      [] w \in {<<"s", "a", "t">>, <<"s", "a", "t", "u", "r", "d", "a", "y">>} -> 5
      [] w \in {<<"s", "u", "n">>, <<"s", "u", "n", "d", "a", "y">>} -> 6
      [] OTHER -> -1

\* the keys of month_map that %b knows, and those %B knows
MonthAbbrs ==
    <<<<"j", "a", "n">>, <<"f", "e", "b">>, <<"m", "a", "r">>, <<"a", "p", "r">>, <<"m", "a", "y">>, <<"j", "u", "n">>,
      <<"j", "u", "l">>, <<"a", "u", "g">>, <<"s", "e", "p">>, <<"o", "c", "t">>, <<"n", "o", "v">>, <<"d", "e", "c">>>>

MonthNames ==
    <<<<"j", "a", "n", "u", "a", "r", "y">>, <<"f", "e", "b", "r", "u", "a", "r", "y">>, <<"m", "a", "r", "c", "h">>, <<"a", "p", "r", "i", "l">>, <<"m", "a", "y">>, <<"j", "u", "n", "e">>,
      <<"j", "u", "l", "y">>, <<"a", "u", "g", "u", "s", "t">>, <<"s", "e", "p", "t", "e", "m", "b", "e", "r">>, <<"o", "c", "t", "o", "b", "e", "r">>, <<"n", "o", "v", "e", "m", "b", "e", "r">>, <<"d", "e", "c", "e", "m", "b", "e", "r">>>>

\* index of w in a list of twelve names, 0 when it is none of them
IndexIn(names, w) ==
    IF \E i \in 1..Len(names) : names[i] = w
    THEN CHOOSE i \in 1..Len(names) : names[i] = w
    ELSE 0

\* month_map: 0 for a word that is no key
MonthOf(w) ==
    IF IndexIn(MonthAbbrs, w) /= 0 THEN IndexIn(MonthAbbrs, w)
    ELSE IF w = <<"s", "e", "p", "t">> THEN 9
    ELSE IndexIn(MonthNames, w)

\* the relative weekday phrase of lines 519-558: m.group(1) and the weekday
\* of m.group(2); no match gives rel = ""
RelativePhrase(s_lower) ==
    LET n == LettersLen(s_lower)
        rel == SubSeq(s_lower, 1, n)
        rest == Drop(s_lower, n)
        word == Drop(rest, BlanksLen(rest))
    IN  IF /\ rel \in {<<"l", "a", "s", "t">>, <<"n", "e", "x", "t">>, <<"t", "h", "i", "s">>}
           /\ BlanksLen(rest) >= 1
           /\ word /= <<>>
           /\ LettersLen(word) = Len(word)
        THEN [rel |-> rel, target |-> WeekdayOf(word)]
        ELSE [rel |-> <<>>, target |-> -1]

\* the delta of "last" when a delta of 0 is kept
LastDeltaZeroKept(current, target) == (current - target) % 7

\* lines 546-549
LastDelta(current, target) ==
    IF (current - target) % 7 = 0 THEN 7 ELSE (current - target) % 7

\* lines 551-554
NextDelta(current, target) ==
    IF (target - current) % 7 = 0 THEN 7 ELSE (target - current) % 7

\* line 556
ThisDelta(current, target) == (target - current) % 7

\* lines 543-558
RelativeDate(rel, target, today) ==
    IF rel = <<"l", "a", "s", "t">> THEN SubDays(today, LastDelta(Weekday(today), target))
    ELSE IF rel = <<"n", "e", "x", "t">> THEN AddDays(today, NextDelta(Weekday(today), target))
    ELSE AddDays(today, ThisDelta(Weekday(today), target))

\* s split at every c
RECURSIVE SplitOn(_, _)
SplitOn(s, c) ==
    LET i == FindFirst(s, <<c>>)
    IN  IF i = 0 THEN <<s>>
        ELSE <<SubSeq(s, 1, i - 1)>> \o SplitOn(Drop(s, i), c)

\* the number a strptime field of one or two digits holds, -1 when the
\* token is not such a field or is out of lo..hi
FieldVal(tok, lo, hi) ==
    IF tok /= <<>> /\ Len(tok) <= 2 /\ AllDigits(tok) /\ NatVal(tok) \in lo..hi
    THEN NatVal(tok) ELSE -1

\* %Y (four digits) and %y (two digits: 69-99 are 19xx, 00-68 are 20xx);
\* -1 when the token is not the field
YearVal(tok, width) ==
    IF Len(tok) /= width \/ ~AllDigits(tok) THEN -1
    ELSE IF width = 4 THEN NatVal(tok)
    ELSE IF NatVal(tok) >= 69 THEN 1900 + NatVal(tok)
    ELSE 2000 + NatVal(tok)

\* the fields strptime reads: matched is whether the text has the shape of
\* the format
Fields(m, d, y) == [matched |-> m >= 1 /\ d >= 1 /\ y >= 0, m |-> m, d |-> d, y |-> y]

NoFields == [matched |-> FALSE, m |-> 0, d |-> 0, y |-> 0]

\* %m<sep>%d<sep>%Y or %y with sep "/" or "-"
NumericFields(s, sep, width) ==
    LET parts == SplitOn(s, sep)
    IN  IF Len(parts) /= 3 THEN NoFields
        ELSE Fields(FieldVal(parts[1], 1, 12), FieldVal(parts[2], 1, 31),
                    YearVal(parts[3], width))

\* "%m %d %Y" or "%m %d %y"
SpacedFields(s, width) ==
    LET parts == SplitWords(s)
    IN  IF Len(parts) /= 3 THEN NoFields
        ELSE Fields(FieldVal(parts[1], 1, 12), FieldVal(parts[2], 1, 31),
                    YearVal(parts[3], width))

\* "%b %d %Y" and its kin: names the list of month names (%b or %B), comma
\* whether the day is followed by ","
NamedFields(s, names, comma, width) ==
    LET parts == SplitWords(s)
        day == IF Len(parts) = 3 /\ comma /\ parts[2] /= <<>> /\ parts[2][Len(parts[2])] = ","
               THEN SubSeq(parts[2], 1, Len(parts[2]) - 1)
               ELSE IF Len(parts) = 3 /\ ~comma THEN parts[2]
               ELSE <<>>
    IN  IF Len(parts) /= 3 THEN NoFields
        ELSE Fields(IndexIn(names, Lower(parts[1])), FieldVal(day, 1, 31),
                    YearVal(parts[3], width))

\* the formats of lines 568-583, in order
FormatFields(s) ==
    <<NumericFields(s, "/", 4), NumericFields(s, "-", 4), SpacedFields(s, 4),
      NumericFields(s, "/", 2), NumericFields(s, "-", 2), SpacedFields(s, 2),
      NamedFields(s, MonthAbbrs, FALSE, 4), NamedFields(s, MonthNames, FALSE, 4),
      NamedFields(s, MonthAbbrs, TRUE, 4), NamedFields(s, MonthNames, TRUE, 4),
      NamedFields(s, MonthAbbrs, FALSE, 2), NamedFields(s, MonthNames, FALSE, 2),
      NamedFields(s, MonthAbbrs, TRUE, 2), NamedFields(s, MonthNames, TRUE, 2)>>

\* the loop of lines 567-587: the first format that reads a date
RECURSIVE FirstFormatDate(_)
FirstFormatDate(fields) ==
    IF fields = <<>> THEN NoDate
    ELSE IF Head(fields).matched /\ ValidDate(Head(fields).y, Head(fields).m, Head(fields).d)
    THEN SomeDate(Head(fields).y, Head(fields).m, Head(fields).d)
    ELSE FirstFormatDate(Tail(fields))

\* date.fromisoformat(s) for YYYY-MM-DD and, as Python 3.11 and later read
\* it, YYYYMMDD; other texts raise
IsoDate(s) ==
    IF /\ Len(s) = 10
       /\ s[5] = "-"
       /\ s[8] = "-"
       /\ AllDigits(SubSeq(s, 1, 4) \o SubSeq(s, 6, 7) \o SubSeq(s, 9, 10))
    THEN TryDate(NatVal(SubSeq(s, 1, 4)), NatVal(SubSeq(s, 6, 7)), NatVal(SubSeq(s, 9, 10)))
    ELSE IF Len(s) = 8 /\ AllDigits(s)
    THEN TryDate(NatVal(SubSeq(s, 1, 4)), NatVal(SubSeq(s, 5, 6)), NatVal(SubSeq(s, 7, 8)))
    ELSE NoDate

\* the month and day of lines 590-593; no match gives month = 0
MonthDayPhrase(s_lower) ==
    LET n == LettersLen(s_lower)
        rest == Drop(s_lower, n)
        num == Drop(rest, BlanksLen(rest))
        k == DigitsLen(num)
        tail == Drop(num, k)
    IN  IF /\ n >= 1
           /\ BlanksLen(rest) >= 1
           /\ k \in 1..2
           /\ tail \in {<<>>, <<"s", "t">>, <<"n", "d">>, <<"r", "d">>, <<"t", "h">>}
        THEN [month |-> MonthOf(SubSeq(s_lower, 1, n)), day |-> NatVal(SubSeq(num, 1, k))]
        ELSE [month |-> 0, day |-> 0]

\* lines 620-630: None stands for the exception of either date()
YearlessDate(month, day, today) ==
    IF ~ValidDate(today.y, month, day) THEN NoDate
    ELSE IF DateAfter([y |-> today.y, m |-> month, d |-> day], today)
    THEN TryDate(today.y - 1, month, day)
    ELSE SomeDate(today.y, month, day)

\* re.sub(r"\D", "", s)
RECURSIVE OnlyDigits(_)
OnlyDigits(s) ==
    IF s = <<>> THEN <<>>
    ELSE (IF IsDigit(Head(s)) THEN <<Head(s)>> ELSE <<>>) \o OnlyDigits(Tail(s))

\* lines 632-648
DigitsDate(s) ==
    LET digits == OnlyDigits(s)
        y == NatVal(SubSeq(digits, 1, 4))
        ymd == TryDate(y, NatVal(SubSeq(digits, 5, 6)), NatVal(SubSeq(digits, 7, 8)))
    IN  IF Len(digits) < 8 THEN NoDate
        ELSE IF y >= 1900 /\ y <= 2100 /\ ymd.ok THEN ymd
        ELSE TryDate(NatVal(SubSeq(digits, 5, 8)), NatVal(SubSeq(digits, 1, 2)),
                     NatVal(SubSeq(digits, 3, 4)))

\* _parse_iso_date(value) when _today_in_configured_tz() is today
ParseIsoDate(value, today) ==
    LET s == Strip(value)
        s_lower == Lower(s)
        rp == RelativePhrase(s_lower)
        md == MonthDayPhrase(s_lower)
    IN  IF s = <<>> THEN NoDate
        ELSE IF s_lower = <<"t", "o", "d", "a", "y">> THEN [ok |-> TRUE, date |-> today]
        ELSE IF s_lower = <<"y", "e", "s", "t", "e", "r", "d", "a", "y">> THEN [ok |-> TRUE, date |-> SubDays(today, 1)]
        ELSE IF s_lower = <<"t", "o", "m", "o", "r", "r", "o", "w">> THEN [ok |-> TRUE, date |-> AddDays(today, 1)]
        ELSE IF rp.target >= 0
        THEN [ok |-> TRUE, date |-> RelativeDate(rp.rel, rp.target, today)]
        ELSE IF IsoDate(s).ok THEN IsoDate(s)
        ELSE IF FirstFormatDate(FormatFields(s)).ok THEN FirstFormatDate(FormatFields(s))
        ELSE IF md.month /= 0 /\ YearlessDate(md.month, md.day, today).ok
        THEN YearlessDate(md.month, md.day, today)
        ELSE DigitsDate(s)
----------------------------------------------------------------------------
(* Inputs of _parse_iso_date *)

\* days after each first day taken as today
MaxSpan == 7

\* first days: before a leap day, before a new year, before the end of
\* February of a common year
FirstDays ==
    { [y |-> 2024, m |-> 2, d |-> 24],
      [y |-> 2025, m |-> 12, d |-> 28],
      [y |-> 2023, m |-> 2, d |-> 25] }

Todays == { AddDays(f, k) : f \in FirstDays, k \in 0..MaxSpan }

RelativeWords == { <<"l", "a", "s", "t">>, <<"n", "e", "x", "t">>, <<"t", "h", "i", "s">> }

\* the keys of weekday_map
WeekdayWords ==
    { <<"m", "o", "n">>, <<"m", "o", "n", "d", "a", "y">>, <<"t", "u", "e">>, <<"t", "u", "e", "s">>, <<"t", "u", "e", "s", "d", "a", "y">>, <<"w", "e", "d">>, <<"w", "e", "d", "n", "e", "s", "d", "a", "y">>,
      <<"t", "h", "u">>, <<"t", "h", "u", "r">>, <<"t", "h", "u", "r", "s">>, <<"t", "h", "u", "r", "s", "d", "a", "y">>, <<"f", "r", "i">>, <<"f", "r", "i", "d", "a", "y">>,
      <<"s", "a", "t">>, <<"s", "a", "t", "u", "r", "d", "a", "y">>, <<"s", "u", "n">>, <<"s", "u", "n", "d", "a", "y">> }

\* the keys of month_map
MonthWords ==
    { MonthAbbrs[i] : i \in 1..12 } \cup { MonthNames[i] : i \in 1..12 } \cup { <<"s", "e", "p", "t">> }

DayNumbers == { 1, 28, 29, 30, 31 }

OrdinalSuffixes == { <<>>, <<"t", "h">> }

RelativeText(rel, word) == rel \o <<" ">> \o word

YearlessText(word, day, suffix) == word \o <<" ">> \o NatStr(day) \o suffix

\* texts that are neither
OtherTexts ==
    { <<>>, <<"t", "o", "d", "a", "y">>, <<"Y", "e", "s", "t", "e", "r", "d", "a", "y">>, <<"t", "o", "m", "o", "r", "r", "o", "w">>, <<"2", "0", "2", "4", "-", "0", "2", "-", "2", "9">>, <<"2", "/", "2", "9", "/", "2", "0", "2", "3">>,
      <<"D", "e", "c", " ", "1", "2", ",", " ", "2", "0", "2", "5">>, <<"1", "2", "-", "3", "1", "-", "9", "9">>, <<"0", "2", "2", "9", "2", "0", "2", "4">>, <<"n", "o", "t", " ", "a", " ", "d", "a", "t", "e">>, <<"l", "a", "s", "t", " ", "m", "a", "y">>,
      <<"N", "e", "x", "t", " ", " ", "F", "R", "I">>, <<"f", "e", "b", " ", "2", "9", "T", "H">> }

DateTexts ==
    { RelativeText(r, w) : r \in RelativeWords, w \in WeekdayWords }
    \cup { YearlessText(w, d, s) : w \in MonthWords, d \in DayNumbers, s \in OrdinalSuffixes }
    \cup OtherTexts

\* a call of _parse_iso_date on a day
DatesInit ==
    /\ ledger = MissingFile
    /\ env_overrides = UnsetEnv
    /\ ROWS = NoneSlot
    /\ DEPT_ENTRIES = NoneSlot
    /\ DEPT_EMAIL_OVERRIDES = NoneSlot
    /\ load_count = NoLoads
    /\ d_pc = "call"
    /\ d_call \in { [op |-> "parse", value |-> v, today |-> t] : v \in DateTexts, t \in Todays }
    /\ d_ret = [op |-> "none"]
    /\ th = <<>>
    /\ RefIdle
    /\ ImportIdle

\* _parse_iso_date(value)
ParseDate ==
    /\ d_pc = "call"
    /\ d_call.op = "parse"
    /\ d_pc' = "done"
    /\ d_ret' = [op |-> "parse", res |-> ParseIsoDate(d_call.value, d_call.today)]
    /\ UNCHANGED <<ledger, env_overrides, ROWS, DEPT_ENTRIES, DEPT_EMAIL_OVERRIDES,
                   load_count, d_call, th>>
    /\ UNCHANGED refVars
    /\ UNCHANGED importVars

DatesNext == ParseDate

SpecDates == DatesInit /\ [][DatesNext]_vars
----------------------------------------------------------------------------
(* Claims about _parse_iso_date *)

ParseDone == d_pc = "done" /\ d_call.op = "parse"

\* the day of the week a weekday word names, Monday 0: its first three
\* letters tell
NamedWeekday(word) == IndexIn(<<<<"m", "o", "n">>, <<"t", "u", "e">>, <<"w", "e", "d">>, <<"t", "h", "u">>, <<"f", "r", "i">>, <<"s", "a", "t">>, <<"s", "u", "n">>>>,
                              SubSeq(word, 1, 3)) - 1

\* the month a month word names: its first three letters tell
NamedMonth(word) == IndexIn(MonthAbbrs, SubSeq(word, 1, 3))

\* days from today to the date returned
Offset == ToOrdinal(d_ret.res.date) - ToOrdinal(d_call.today)

\* C21: for every today and every weekday name or abbreviation X, the date
\* returned for "last X", "next X" and "this X" falls on weekday X and lies
\* -7..-1 days from today for last, +1..+7 for next, 0..+6 for this
C21_RelativeWeekdayOffsets ==
    \A r \in RelativeWords, w \in WeekdayWords :
        (ParseDone /\ d_call.value = RelativeText(r, w)) =>
            /\ d_ret.res.ok
            /\ Weekday(d_ret.res.date) = NamedWeekday(w)
            /\ r = <<"l", "a", "s", "t">> => Offset \in (-7)..(-1)
            /\ r = <<"n", "e", "x", "t">> => Offset \in 1..7
            /\ r = <<"t", "h", "i", "s">> => Offset \in 0..6

\* "last" asked of today's own weekday, across the end of a month: a week
\* back
C21_Witness ==
    /\ ParseDone
    /\ \E w \in WeekdayWords :
          /\ d_call.value = RelativeText(<<"l", "a", "s", "t">>, w)
          /\ NamedWeekday(w) = Weekday(d_call.today)
    /\ d_ret.res.ok
    /\ Offset = -7
    /\ d_ret.res.date.m /= d_call.today.m

\* C22: for every today and every month name or abbreviation with a day
\* that is a date of today's year, the year-less text, with or without
\* ordinal suffix, gives a date: that day of today's year when it is not
\* after today, else the same month and day of the year before
C22_YearlessDateResolved ==
    \A w \in MonthWords, d \in DayNumbers, s \in OrdinalSuffixes :
        (/\ ParseDone
         /\ d_call.value = YearlessText(w, d, s)
         /\ ValidDate(d_call.today.y, NamedMonth(w), d)) =>
            /\ d_ret.res.ok
            /\ d_ret.res.date.m = NamedMonth(w)
            /\ d_ret.res.date.d = d
            /\ d_ret.res.date.y =
                 IF DateAfter([y |-> d_call.today.y, m |-> NamedMonth(w), d |-> d], d_call.today)
                 THEN d_call.today.y - 1
                 ELSE d_call.today.y
----------------------------------------------------------------------------
(* _extract_first_number and _find_mie_rate; a JSON object is JDict(items),
   its keys strings of characters, in the order of the document *)

\* str.replace(c, "")
RECURSIVE Remove(_, _)
Remove(s, c) ==
    IF s = <<>> THEN <<>>
    ELSE (IF Head(s) = c THEN <<>> ELSE <<Head(s)>>) \o Remove(Tail(s), c)

\* a float returned, in thousandths, and None
SomeNumber(n) == [ok |-> TRUE, n |-> n]

NoNumber == [ok |-> FALSE, n |-> 0]

\* _extract_first_number(value)
ExtractFirstNumber(value) ==
    IF value.t = "null" THEN NoNumber
    ELSE IF value.t = "num" THEN SomeNumber(value.n)
    ELSE LET s == Remove(Remove(Strip(PyStr(value)), "$"), ",")
         IN  IF s = <<>> THEN NoNumber
             ELSE IF PyFloat(JStr(s)).ok THEN SomeNumber(PyFloat(JStr(s)).n)
             ELSE NoNumber

\* key in obj
HasKey(obj, key) == \E i \in 1..Len(obj.items) : obj.items[i].k = key

\* obj.get(key) for a key of obj
ItemOf(obj, key) == obj.items[CHOOSE i \in 1..Len(obj.items) : obj.items[i].k = key].v

MieKeys == <<<<"m", "i", "e">>, <<"M", "I", "E">>, <<"m", "e", "a", "l", "s", "A", "n", "d", "I", "n", "c", "i", "d", "e", "n", "t", "a", "l">>, <<"m", "e", "a", "l", "s", "_", "i", "n", "c", "i", "d", "e", "n", "t", "a", "l">>, <<"m", "_", "a", "n", "d", "_", "i", "e">>>>

MealsKeys == <<<<"m", "e", "a", "l", "s">>, <<"M", "e", "a", "l", "s">>>>

IncidentalKeys == <<<<"i", "n", "c", "i", "d", "e", "n", "t", "a", "l">>, <<"I", "n", "c", "i", "d", "e", "n", "t", "a", "l", "s">>, <<"i", "n", "c", "i", "d", "e", "n", "t", "a", "l", "s">>>>

\* lines 676-680: the first of the direct keys that holds a number
RECURSIVE DirectRate(_, _)
DirectRate(obj, keys) ==
    IF keys = <<>> THEN NoNumber
    ELSE IF HasKey(obj, Head(keys)) /\ ExtractFirstNumber(ItemOf(obj, Head(keys))).ok
    THEN ExtractFirstNumber(ItemOf(obj, Head(keys)))
    ELSE DirectRate(obj, Tail(keys))

\* the loops of lines 683-688: the variable is assigned for every key the
\* object has, so the last such key decides
RECURSIVE LastKeyNumber(_, _, _)
LastKeyNumber(obj, keys, found) ==
    IF keys = <<>> THEN found
    ELSE IF HasKey(obj, Head(keys))
    THEN LastKeyNumber(obj, Tail(keys), ExtractFirstNumber(ItemOf(obj, Head(keys))))
    ELSE LastKeyNumber(obj, Tail(keys), found)

\* _find_mie_rate(obj); FirstRate is the loop over the values of a dict or
\* the items of a list
RECURSIVE FindMieRate(_), FirstRate(_)
FindMieRate(obj) ==
    IF obj.t = "dict"
    THEN LET meals == LastKeyNumber(obj, MealsKeys, NoNumber)
             incidental == LastKeyNumber(obj, IncidentalKeys, NoNumber)
         IN  IF DirectRate(obj, MieKeys).ok THEN DirectRate(obj, MieKeys)
             ELSE IF meals.ok /\ ~incidental.ok THEN meals
             ELSE IF meals.ok /\ incidental.ok THEN SomeNumber(meals.n + incidental.n)
             ELSE FirstRate([i \in 1..Len(obj.items) |-> obj.items[i].v])
    ELSE IF obj.t = "list" THEN FirstRate(obj.elems)
    ELSE NoNumber

FirstRate(values) ==
    IF values = <<>> THEN NoNumber
    ELSE IF FindMieRate(Head(values)).ok THEN FindMieRate(Head(values))
    ELSE FirstRate(Tail(values))

----------------------------------------------------------------------------
(* Inputs of _find_mie_rate *)

\* most wrappers around an object of rates
MaxNesting == 2

\* None stands for a key the object does not have
DirectVals == { JNull, JNum(59000), JStr(<<"n", "/", "a">>) }

MealsVals == { JNull, JNum(74000), JStr(<<"$", "1", ",", "0", "7", "4", ".", "5", "0">>), JStr(<<"n", "/", "a">>) }

CapitalMealsVals == { JNull, JNum(68000), JStr(<<"x">>) }

IncidentalVals == { JNull, JNum(5000), JStr(<<"x">>) }

\* the items of the keys that are given a value
RECURSIVE ItemsOfPairs(_)
ItemsOfPairs(pairs) ==
    IF pairs = <<>> THEN <<>>
    ELSE (IF Head(pairs).v = JNull THEN <<>> ELSE <<Head(pairs)>>) \o ItemsOfPairs(Tail(pairs))

RateObjects ==
    { JDict(ItemsOfPairs(<<[k |-> <<"m", "i", "e">>, v |-> a], [k |-> <<"m", "e", "a", "l", "s">>, v |-> b],
                           [k |-> <<"M", "e", "a", "l", "s">>, v |-> c], [k |-> <<"i", "n", "c", "i", "d", "e", "n", "t", "a", "l">>, v |-> d]>>))
        : a \in DirectVals, b \in MealsVals, c \in CapitalMealsVals, d \in IncidentalVals }

\* a document around doc: a list after a null, an object after a note
Wrappings(doc) ==
    { JList(<<JNull, doc>>),
      JDict(<<[k |-> <<"n", "o", "t", "e">>, v |-> JStr(<<"1", "2">>)], [k |-> <<"r", "a", "t", "e">>, v |-> doc]>>) }

RECURSIVE Wrapped(_, _)
Wrapped(docs, n) ==
    IF n = 0 THEN docs
    ELSE docs \cup Wrapped(UNION { Wrappings(doc) : doc \in docs }, n - 1)

MieDocuments == Wrapped(RateObjects, MaxNesting) \cup { JNull, JNum(59000), JStr(<<"5", "9">>) }

\* a call of _find_mie_rate
MieInit ==
    /\ ledger = MissingFile
    /\ env_overrides = UnsetEnv
    /\ ROWS = NoneSlot
    /\ DEPT_ENTRIES = NoneSlot
    /\ DEPT_EMAIL_OVERRIDES = NoneSlot
    /\ load_count = NoLoads
    /\ d_pc = "call"
    /\ d_call \in { [op |-> "mie", obj |-> doc] : doc \in MieDocuments }
    /\ d_ret = [op |-> "none"]
    /\ th = <<>>
    /\ RefIdle
    /\ ImportIdle

\* _find_mie_rate(obj)
FindMie ==
    /\ d_pc = "call"
    /\ d_call.op = "mie"
    /\ d_pc' = "done"
    /\ d_ret' = [op |-> "mie", res |-> FindMieRate(d_call.obj)]
    /\ UNCHANGED <<ledger, env_overrides, ROWS, DEPT_ENTRIES, DEPT_EMAIL_OVERRIDES,
                   load_count, d_call, th>>
    /\ UNCHANGED refVars
    /\ UNCHANGED importVars

MieNext == FindMie

SpecMie == MieInit /\ [][MieNext]_vars
----------------------------------------------------------------------------
(* Claims about _find_mie_rate *)

MieDone == d_pc = "done" /\ d_call.op = "mie"

\* the numbers the keys of a list hold in an object
NumbersUnder(obj, keys) ==
    { ExtractFirstNumber(ItemOf(obj, keys[i])).n :
        i \in { j \in 1..Len(keys) :
                  HasKey(obj, keys[j]) /\ ExtractFirstNumber(ItemOf(obj, keys[j])).ok } }

\* the objects anywhere in a document
RECURSIVE ObjectsIn(_)
ObjectsIn(doc) ==
    IF doc.t = "dict"
    THEN {doc} \cup UNION { ObjectsIn(doc.items[i].v) : i \in 1..Len(doc.items) }
    ELSE IF doc.t = "list" THEN UNION { ObjectsIn(doc.elems[i]) : i \in 1..Len(doc.elems) }
    ELSE {}

\* C24: of an object examined, a parseable direct mie key is returned before
\* any meals or incidental key; without one, parseable meals alone are
\* returned as the rate, parseable meals and incidental as their sum; and
\* the result for a document is None exactly when no object in it has a
\* parseable mie or meals value
C24_MieRateFound ==
    MieDone =>
        /\ d_call.obj.t = "dict" =>
             \A o \in {d_call.obj} :
             \A direct \in {NumbersUnder(o, MieKeys)},
                meals \in {NumbersUnder(o, MealsKeys)},
                incidental \in {NumbersUnder(o, IncidentalKeys)} :
                /\ direct /= {} => (d_ret.res.ok /\ d_ret.res.n \in direct)
                /\ (direct = {} /\ meals /= {} /\ incidental = {})
                      => (d_ret.res.ok /\ d_ret.res.n \in meals)
                /\ (direct = {} /\ meals /= {} /\ incidental /= {})
                      => (d_ret.res.ok /\ d_ret.res.n \in { m + i : m \in meals, i \in incidental })
        /\ ~d_ret.res.ok <=>
             \A o \in ObjectsIn(d_call.obj) :
                NumbersUnder(o, MieKeys) = {} /\ NumbersUnder(o, MealsKeys) = {}
----------------------------------------------------------------------------
(* _parse_city_state, _zip_to_place, the two GSA lookups and per_diem_lookup *)

\* the keys and the values of _US_STATES, in the order of the table
StateAbbrs ==
    <<
       <<"A", "L">>, <<"A", "K">>, <<"A", "Z">>, <<"A", "R">>, <<"C", "A">>, <<"C", "O">>, <<"C", "T">>, <<"D", "E">>, <<"F", "L">>, <<"G", "A">>,
       <<"H", "I">>, <<"I", "D">>, <<"I", "L">>, <<"I", "N">>, <<"I", "A">>, <<"K", "S">>, <<"K", "Y">>, <<"L", "A">>, <<"M", "E">>, <<"M", "D">>,
       <<"M", "A">>, <<"M", "I">>, <<"M", "N">>, <<"M", "S">>, <<"M", "O">>, <<"M", "T">>, <<"N", "E">>, <<"N", "V">>, <<"N", "H">>, <<"N", "J">>,
       <<"N", "M">>, <<"N", "Y">>, <<"N", "C">>, <<"N", "D">>, <<"O", "H">>, <<"O", "K">>, <<"O", "R">>, <<"P", "A">>, <<"R", "I">>, <<"S", "C">>,
       <<"S", "D">>, <<"T", "N">>, <<"T", "X">>, <<"U", "T">>, <<"V", "T">>, <<"V", "A">>, <<"W", "A">>, <<"W", "V">>, <<"W", "I">>, <<"W", "Y">>,
       <<"D", "C">>
    >>

StateNames ==
    <<
       <<"A", "L", "A", "B", "A", "M", "A">>, <<"A", "L", "A", "S", "K", "A">>, <<"A", "R", "I", "Z", "O", "N", "A">>, <<"A", "R", "K", "A", "N", "S", "A", "S">>,
       <<"C", "A", "L", "I", "F", "O", "R", "N", "I", "A">>, <<"C", "O", "L", "O", "R", "A", "D", "O">>, <<"C", "O", "N", "N", "E", "C", "T", "I", "C", "U", "T">>, <<"D", "E", "L", "A", "W", "A", "R", "E">>,
       <<"F", "L", "O", "R", "I", "D", "A">>, <<"G", "E", "O", "R", "G", "I", "A">>, <<"H", "A", "W", "A", "I", "I">>, <<"I", "D", "A", "H", "O">>,
       <<"I", "L", "L", "I", "N", "O", "I", "S">>, <<"I", "N", "D", "I", "A", "N", "A">>, <<"I", "O", "W", "A">>, <<"K", "A", "N", "S", "A", "S">>,
       <<"K", "E", "N", "T", "U", "C", "K", "Y">>, <<"L", "O", "U", "I", "S", "I", "A", "N", "A">>, <<"M", "A", "I", "N", "E">>, <<"M", "A", "R", "Y", "L", "A", "N", "D">>,
       <<"M", "A", "S", "S", "A", "C", "H", "U", "S", "E", "T", "T", "S">>, <<"M", "I", "C", "H", "I", "G", "A", "N">>, <<"M", "I", "N", "N", "E", "S", "O", "T", "A">>, <<"M", "I", "S", "S", "I", "S", "S", "I", "P", "P", "I">>,
       <<"M", "I", "S", "S", "O", "U", "R", "I">>, <<"M", "O", "N", "T", "A", "N", "A">>, <<"N", "E", "B", "R", "A", "S", "K", "A">>, <<"N", "E", "V", "A", "D", "A">>,
       <<"N", "E", "W", " ", "H", "A", "M", "P", "S", "H", "I", "R", "E">>, <<"N", "E", "W", " ", "J", "E", "R", "S", "E", "Y">>, <<"N", "E", "W", " ", "M", "E", "X", "I", "C", "O">>, <<"N", "E", "W", " ", "Y", "O", "R", "K">>,
       <<"N", "O", "R", "T", "H", " ", "C", "A", "R", "O", "L", "I", "N", "A">>, <<"N", "O", "R", "T", "H", " ", "D", "A", "K", "O", "T", "A">>, <<"O", "H", "I", "O">>, <<"O", "K", "L", "A", "H", "O", "M", "A">>,
       <<"O", "R", "E", "G", "O", "N">>, <<"P", "E", "N", "N", "S", "Y", "L", "V", "A", "N", "I", "A">>, <<"R", "H", "O", "D", "E", " ", "I", "S", "L", "A", "N", "D">>, <<"S", "O", "U", "T", "H", " ", "C", "A", "R", "O", "L", "I", "N", "A">>,
       <<"S", "O", "U", "T", "H", " ", "D", "A", "K", "O", "T", "A">>, <<"T", "E", "N", "N", "E", "S", "S", "E", "E">>, <<"T", "E", "X", "A", "S">>, <<"U", "T", "A", "H">>,
       <<"V", "E", "R", "M", "O", "N", "T">>, <<"V", "I", "R", "G", "I", "N", "I", "A">>, <<"W", "A", "S", "H", "I", "N", "G", "T", "O", "N">>, <<"W", "E", "S", "T", " ", "V", "I", "R", "G", "I", "N", "I", "A">>,
       <<"W", "I", "S", "C", "O", "N", "S", "I", "N">>, <<"W", "Y", "O", "M", "I", "N", "G">>, <<"D", "I", "S", "T", "R", "I", "C", "T", " ", "O", "F", " ", "C", "O", "L", "U", "M", "B", "I", "A">>
    >>

\* a tuple (city, state_abbr), and (None, None)
CityState(city, state) == [ok |-> TRUE, city |-> city, state |-> state]

NoCityState == [ok |-> FALSE, city |-> <<>>, state |-> <<>>]

\* the places of a character in s
PlacesOf(s, c) == { i \in 1..Len(s) : s[i] = c }

\* lines 736-742: s.split(",", 1) stripped, or s.rsplit(None, 1)
CityStateParts(s) ==
    IF PlacesOf(s, ",") /= {}
    THEN LET i == CHOOSE j \in PlacesOf(s, ",") : \A k \in PlacesOf(s, ",") : j <= k
         IN  <<Strip(SubSeq(s, 1, i - 1)), Strip(SubSeq(s, i + 1, Len(s)))>>
    ELSE IF PlacesOf(s, " ") /= {}
    THEN LET i == CHOOSE j \in PlacesOf(s, " ") : \A k \in PlacesOf(s, " ") : j >= k
         IN  <<RStrip(SubSeq(s, 1, i - 1)), SubSeq(s, i + 1, Len(s))>>
    ELSE <<>>

\* _parse_city_state(raw)
ParseCityState(raw) ==
    LET s == Strip(raw)
        parts == CityStateParts(s)
    IN  IF s = <<>> THEN NoCityState
        ELSE IF parts = <<>> \/ parts[1] = <<>> \/ parts[2] = <<>> THEN NoCityState
        ELSE LET city == Strip(parts[1])
                 state_raw == Upper(Strip(parts[2]))
             IN  IF \E i \in 1..Len(StateAbbrs) : StateAbbrs[i] = state_raw
                 THEN CityState(city, state_raw)
                 ELSE IF \E i \in 1..Len(StateNames) : StateNames[i] = state_raw
                 THEN CityState(city, StateAbbrs[CHOOSE i \in 1..Len(StateNames) :
                                                    StateNames[i] = state_raw])
                 ELSE NoCityState

\* " ".join(s.split())
RECURSIVE OneSpaced(_)
OneSpaced(s) ==
    IF s = <<>> THEN <<>>
    ELSE IF Head(s) = " " /\ Len(s) > 1 /\ s[2] = " " THEN OneSpaced(Tail(s))
    ELSE <<Head(s)>> \o OneSpaced(Tail(s))

\* s.replace(" ", "%20")
RECURSIVE SpacesEncoded(_)
SpacesEncoded(s) ==
    IF s = <<>> THEN <<>>
    ELSE (IF Head(s) = " " THEN <<"%", "2", "0">> ELSE <<Head(s)>>) \o SpacesEncoded(Tail(s))

\* lines 775-777 and 849-851: city_enc
CityEnc(city) ==
    LET upper == Upper(city)
        city_norm == [i \in 1..Len(upper) |->
                         IF upper[i] \in {".", "'", "-"} THEN " " ELSE upper[i]]
    IN  SpacesEncoded(OneSpaced(Strip(city_norm)))

\* lines 770 and 810: the federal fiscal year starts on 1 October
FiscalYear(dt) == IF dt.m >= 10 THEN dt.y + 1 ELSE dt.y

\* travel_date or _today_in_configured_tz()
RateDate(travel_date, today) == IF travel_date.ok THEN travel_date.date ELSE today

\* a GET sent to the rate service: the path after base_url up to /year/, and
\* the year that ends the path
ZipRequest(zip_code, fiscal_year) ==
    [path |-> <<"/", "r", "a", "t", "e", "s", "/", "z", "i", "p", "/">> \o zip_code, year |-> fiscal_year]

CityRequest(city, state, fiscal_year) ==
    [path |-> <<"/", "r", "a", "t", "e", "s", "/", "c", "i", "t", "y", "/">> \o CityEnc(city) \o <<"/", "s", "t", "a", "t", "e", "/">> \o Upper(state),
     year |-> fiscal_year]

\* what a GET meets: an exception, or a response with a status, a text and,
\* when the text is JSON, the value resp.json() returns
Raised == [raised |-> TRUE, status |-> 0, json |-> FALSE, body |-> JNull]

Answer(code, json, value) == [raised |-> FALSE, status |-> code, json |-> json, body |-> value]

\* the pair (body, err) the lookups return, with the requests they sent
Looked(raw, requests) == [raw |-> raw, err |-> [msg |-> "none"], requests |-> requests]

LookupError(err, requests) == [raw |-> JNull, err |-> err, requests |-> requests]

\* the entry of attempts for a request
Attempt(request, resp) == [url |-> request, status |-> resp.status]

\* _gsa_per_diem_city_state_lookup(city, state, travel_date, debug)
GsaPerDiemCityStateLookup(city, state, travel_date, debug, today, api_key, net) ==
    LET request == CityRequest(city, state, FiscalYear(RateDate(travel_date, today)))
        resp == net.city
    IN  IF Strip(api_key) = <<>>
        THEN LookupError([msg |-> "GSA_API_KEY is not configured."], <<>>)
        ELSE IF resp.raised
        THEN LookupError([msg |-> "GSA per diem request failed"], <<request>>)
        ELSE IF resp.status = 200
        THEN IF ~resp.json
             THEN LookupError([msg |-> "GSA per diem returned invalid JSON."], <<request>>)
             ELSE IF debug
             THEN Looked(JDict(<<[k |-> <<"_", "d", "e", "b", "u", "g">>,
                                  v |-> [t |-> "debug", attempts |-> <<Attempt(request, resp)>>]],
                                 [k |-> <<"d", "a", "t", "a">>, v |-> resp.body]>>), <<request>>)
             ELSE Looked(resp.body, <<request>>)
        ELSE LookupError([msg |-> "GSA per diem lookup failed for city, state",
                          city |-> city, state |-> state, status |-> resp.status],
                         <<request>>)

\* _zip_to_place(zip_code): the answer of the geocoder is a JSON object
\* whose places, when it has any, are objects of strings
ZipToPlace(resp) ==
    IF resp.raised THEN [ok |-> FALSE, state |-> <<>>, city |-> <<>>]
    ELSE IF resp.status /= 200 THEN [ok |-> FALSE, state |-> <<>>, city |-> <<>>]
    ELSE IF ~resp.json THEN [ok |-> FALSE, state |-> <<>>, city |-> <<>>]
    ELSE LET places == IF HasKey(resp.body, <<"p", "l", "a", "c", "e", "s">>) /\ Truthy(ItemOf(resp.body, <<"p", "l", "a", "c", "e", "s">>))
                       THEN ItemOf(resp.body, <<"p", "l", "a", "c", "e", "s">>).elems ELSE <<>>
         IN  IF places = <<>> \/ places[1].t /= "dict"
             THEN [ok |-> FALSE, state |-> <<>>, city |-> <<>>]
             ELSE LET place == places[1]
                      pick(a, b) ==
                          IF HasKey(place, a) /\ Truthy(ItemOf(place, a)) THEN ItemOf(place, a).s
                          ELSE IF HasKey(place, b) /\ Truthy(ItemOf(place, b)) THEN ItemOf(place, b).s
                          ELSE <<>>
                      state == Strip(pick(<<"s", "t", "a", "t", "e", " ", "a", "b", "b", "r", "e", "v", "i", "a", "t", "i", "o", "n">>, <<"s", "t", "a", "t", "e">>))
                      city == Strip(pick(<<"p", "l", "a", "c", "e", " ", "n", "a", "m", "e">>, <<"p", "l", "a", "c", "e">>))
                  IN  IF state = <<>> \/ city = <<>>
                      THEN [ok |-> FALSE, state |-> <<>>, city |-> <<>>]
                      ELSE [ok |-> TRUE, state |-> state, city |-> city]

\* _gsa_per_diem_lookup(zip_code, travel_date, debug)
GsaPerDiemLookup(zip_code, travel_date, debug, today, api_key, net) ==
    LET fiscal_year == FiscalYear(RateDate(travel_date, today))
        zip_request == ZipRequest(zip_code, fiscal_year)
        place == ZipToPlace(net.geo)
        city_request == CityRequest(place.city, place.state, fiscal_year)
        sent == IF place.ok THEN <<zip_request, city_request>> ELSE <<zip_request>>
        attempts == IF place.ok
                    THEN <<Attempt(zip_request, net.zip), Attempt(city_request, net.city)>>
                    ELSE <<Attempt(zip_request, net.zip)>>
        wrapped(body, items, upto) ==
            IF debug
            THEN JDict(<<[k |-> <<"_", "d", "e", "b", "u", "g">>,
                          v |-> [t |-> "debug", attempts |-> SubSeq(attempts, 1, upto)] @@ items],
                         [k |-> <<"d", "a", "t", "a">>, v |-> body]>>)
            ELSE body
        failed == IF debug
                  THEN LookupError([msg |-> "GSA per diem lookup failed. Attempts",
                                    attempts |-> attempts], sent)
                  ELSE LookupError([msg |-> "GSA per diem lookup failed",
                                    status |-> net.zip.status], sent)
    IN  IF Strip(api_key) = <<>>
        THEN LookupError([msg |-> "GSA_API_KEY is not configured."], <<>>)
        ELSE IF net.zip.raised
        THEN LookupError([msg |-> "GSA per diem request failed"], <<zip_request>>)
        ELSE IF net.zip.status = 200 /\ ~net.zip.json
        THEN LookupError([msg |-> "GSA per diem returned invalid JSON."], <<zip_request>>)
        ELSE IF net.zip.status = 200
        THEN Looked(wrapped(net.zip.body, [t |-> "debug"], 1), <<zip_request>>)
        ELSE IF ~place.ok THEN failed
        ELSE IF net.city.raised
        THEN LookupError([msg |-> "GSA per diem request failed"], sent)
        ELSE IF net.city.status = 200 /\ ~net.city.json
        THEN LookupError([msg |-> "GSA per diem returned invalid JSON."], sent)
        ELSE IF net.city.status = 200
        THEN Looked(wrapped(net.city.body,
                            [zipCity |-> place.city, zipState |-> place.state], 2), sent)
        ELSE failed

\* lower.get(name.lower()) of lower = {str(k).lower(): v}: the last item
\* whose key is the name but for the case of its letters
LowerGet(d, name) ==
    LET hits == { i \in 1..Len(d.items) : Lower(d.items[i].k) = Lower(name) }
    IN  IF hits = {} THEN JNull
        ELSE d.items[CHOOSE i \in hits : \A j \in hits : i >= j].v

\* _param_ci(*names) and _body_ci(*names) over the dict they read
RECURSIVE FirstCi(_, _)
FirstCi(d, names) ==
    IF d.items = <<>> \/ names = <<>> THEN <<>>
    ELSE IF LowerGet(d, Head(names)).t /= "null" /\ Strip(PyStr(LowerGet(d, Head(names)))) /= <<>>
    THEN Strip(PyStr(LowerGet(d, Head(names))))
    ELSE FirstCi(d, Tail(names))

ZipNames == <<<<"z", "i", "p", "C", "o", "d", "e">>, <<"z", "i", "p">>, <<"z", "i", "p", "c", "o", "d", "e">>, <<"z", "i", "p", "_", "c", "o", "d", "e">>, <<"l", "o", "c", "a", "t", "i", "o", "n">>>>

DateNames == <<<<"t", "r", "a", "v", "e", "l", "D", "a", "t", "e">>, <<"d", "a", "t", "e">>, <<"t", "r", "a", "v", "e", "l", "_", "d", "a", "t", "e">>>>

\* re.sub(r"\D", "", s)
RECURSIVE DigitsOf(_)
DigitsOf(s) ==
    IF s = <<>> THEN <<>>
    ELSE (IF IsDigit(Head(s)) THEN <<Head(s)>> ELSE <<>>) \o DigitsOf(Tail(s))

\* dt.isoformat()
IsoFormat(dt) == Pad4(dt.y) \o <<"-">> \o Pad2(dt.m) \o <<"-">> \o Pad2(dt.d)

\* the body of an error response
PerDiemError(err) == [ok |-> FALSE, error |-> err]

\* line 1088: the debug flag, read from the parameters as they are spelt
DebugFlag(params) ==
    LET a == IF HasKey(params, <<"d", "e", "b", "u", "g">>) THEN ItemOf(params, <<"d", "e", "b", "u", "g">>) ELSE JNull
        b == IF HasKey(params, <<"i", "n", "c", "l", "u", "d", "e", "D", "e", "b", "u", "g">>) THEN ItemOf(params, <<"i", "n", "c", "l", "u", "d", "e", "D", "e", "b", "u", "g">>) ELSE JNull
        v == IF Truthy(a) THEN PyStr(a) ELSE IF Truthy(b) THEN PyStr(b) ELSE <<>>
    IN  Lower(Strip(v)) \in {<<"1">>, <<"t", "r", "u", "e">>, <<"y", "e", "s">>}

\* per_diem_lookup, lines 1040-1097: what the handler reads from the request
PerDiemInputs(call) ==
    LET params == call.params
        body == IF call.body.json THEN call.body.obj ELSE JDict(<<>>)
        raw_body_text == Strip(call.body.text)
        zip_code_raw ==
            Strip(IF FirstCi(params, ZipNames) /= <<>> THEN FirstCi(params, ZipNames)
                  ELSE IF FirstCi(body, ZipNames) /= <<>> THEN FirstCi(body, ZipNames)
                  ELSE raw_body_text)
    IN  [zip_code_raw |-> zip_code_raw,
         travel_date |->
            ParseIsoDate(Strip(IF FirstCi(params, DateNames) /= <<>>
                               THEN FirstCi(params, DateNames)
                               ELSE FirstCi(body, DateNames)), call.today),
         debug |-> DebugFlag(params),
         zip_code |-> Strip(Take(DigitsOf(zip_code_raw), 5)),
         place |-> ParseCityState(zip_code_raw)]

\* lines 1099-1119: the lookup by ZIP code, or else by city and state
PerDiemLooked(in, call) ==
    IF Len(in.zip_code) = 5
    THEN GsaPerDiemLookup(in.zip_code, in.travel_date, in.debug, call.today, call.api_key,
                          call.net)
    ELSE GsaPerDiemCityStateLookup(in.place.city, in.place.state, in.travel_date, in.debug,
                                   call.today, call.api_key, call.net)

\* line 1126
RawData(raw) == IF raw.t = "dict" /\ HasKey(raw, <<"d", "a", "t", "a">>) THEN ItemOf(raw, <<"d", "a", "t", "a">>) ELSE raw

\* lines 1106-1146: the response, for what was read, looked up and extracted
PerDiemResponse(in, looked, mie) ==
    IF Len(in.zip_code) /= 5 /\ in.zip_code_raw = <<>>
    THEN [requests |-> <<>>, travel_date |-> in.travel_date,
          res |-> PerDiemError([msg |-> "Provide a 5-digit ZIP or City, State (e.g. Denver, CO)."])]
    ELSE IF Len(in.zip_code) /= 5 /\ ~in.place.ok
    THEN [requests |-> <<>>, travel_date |-> in.travel_date,
          res |-> PerDiemError([msg |-> "Could not parse location", city_raw |-> in.zip_code_raw])]
    ELSE IF looked.err.msg /= "none"
    THEN [requests |-> looked.requests, travel_date |-> in.travel_date,
          res |-> PerDiemError(looked.err)]
    ELSE IF ~mie.ok
    THEN [requests |-> looked.requests, travel_date |-> in.travel_date,
          res |-> PerDiemError([msg |-> "Unable to extract an M&IE rate from the per diem response."])]
    ELSE [requests |-> looked.requests, travel_date |-> in.travel_date,
          res |-> [ok |-> TRUE,
                   zipCode |-> in.zip_code,
                   debug |-> IF looked.raw.t = "dict" /\ HasKey(looked.raw, <<"_", "d", "e", "b", "u", "g">>)
                             THEN ItemOf(looked.raw, <<"_", "d", "e", "b", "u", "g">>) ELSE JNull,
                   travelDate |-> IF in.travel_date.ok
                                  THEN JStr(IsoFormat(in.travel_date.date)) ELSE JNull,
                   mieRate |-> JNum(mie.n)]]

\* lines 1126-1127 and the response
PerDiemRated(in, looked) == PerDiemResponse(in, looked, FindMieRate(RawData(looked.raw)))

\* lines 1099-1146
PerDiemAnswered(in, call) == PerDiemRated(in, PerDiemLooked(in, call))

\* per_diem_lookup(req): the response and the requests sent on the way.
\* call.body.json tells whether req.get_json() returns a dict, call.body.obj
\* is that dict and call.body.text the body as sent
PerDiemLookupResult(call) == PerDiemAnswered(PerDiemInputs(call), call)
----------------------------------------------------------------------------
(* Requests of per_diem_lookup *)

Locations ==
    { <<"8", "0", "2", "0", "2">>, <<"D", "e", "n", "v", "e", "r", ",", " ", "C", "O">>, <<"s", "t", ".", " ", "l", "o", "u", "i", "s", " ", " ", "m", "i", "s", "s", "o", "u", "r", "i">>, <<"N", "o", "w", "h", "e", "r", "e">>, <<"8", "0", "2", " ", "M", "a", "i", "n">>, <<>> }

TravelDateTexts == { <<>>, <<"2", "0", "2", "4", "-", "1", "0", "-", "0", "5">>, <<"2", "0", "2", "3", "-", "0", "3", "-", "0", "1">>, <<"s", "o", "o", "n">> }

\* the days the requests are made on
PerDiemTodays ==
    { [y |-> 2024, m |-> 9, d |-> 30], [y |-> 2024, m |-> 10, d |-> 1],
      [y |-> 2025, m |-> 1, d |-> 15] }

\* where the request carries its inputs
Placements == { "params", "body", "text" }

Quoted(s) == <<"\"">> \o s \o <<"\"">>

\* the text of the JSON object of two str items
ObjectText(k1, v1, k2, v2) ==
    <<"{">> \o Quoted(k1) \o <<":", " ">> \o Quoted(v1) \o <<",", " ">> \o Quoted(k2) \o <<":", " ">> \o Quoted(v2) \o <<"}">>

DebugItems(debug) == IF debug THEN <<[k |-> <<"d", "e", "b", "u", "g">>, v |-> JStr(<<"T", "r", "u", "e">>)]>> ELSE <<>>

PerDiemRequest(location, text, placement, debug) ==
    IF placement = "params"
    THEN [params |-> JDict(<<[k |-> <<"z", "i", "p", "C", "o", "d", "e">>, v |-> JStr(location)],
                             [k |-> <<"T", "r", "a", "v", "e", "l", "D", "a", "t", "e">>, v |-> JStr(text)]>> \o DebugItems(debug)),
          body |-> [json |-> FALSE, obj |-> JDict(<<>>), text |-> <<>>]]
    ELSE IF placement = "body"
    THEN [params |-> JDict(DebugItems(debug)),
          body |-> [json |-> TRUE,
                    obj |-> JDict(<<[k |-> <<"L", "o", "c", "a", "t", "i", "o", "n">>, v |-> JStr(location)],
                                    [k |-> <<"d", "a", "t", "e">>, v |-> JStr(text)]>>),
                    text |-> ObjectText(<<"L", "o", "c", "a", "t", "i", "o", "n">>, location, <<"d", "a", "t", "e">>, text)]]
    ELSE [params |-> JDict(<<[k |-> <<"t", "r", "a", "v", "e", "l", "_", "d", "a", "t", "e">>, v |-> JStr(text)]>> \o DebugItems(debug)),
          body |-> [json |-> FALSE, obj |-> JDict(<<>>), text |-> location]]

\* answers of the rate service
RateDocument ==
    JDict(<<[k |-> <<"r", "a", "t", "e", "s">>,
             v |-> JList(<<JDict(<<[k |-> <<"m", "e", "a", "l", "s">>, v |-> JNum(74000)],
                                   [k |-> <<"i", "n", "c", "i", "d", "e", "n", "t", "a", "l">>, v |-> JStr(<<"5">>)]>>)>>)]>>)

DataDocument == JDict(<<[k |-> <<"d", "a", "t", "a">>, v |-> JDict(<<[k |-> <<"m", "i", "e">>, v |-> JStr(<<"$", "6", "8">>)]>>)]>>)

ZipAnswers ==
    { Answer(200, TRUE, RateDocument), Answer(200, TRUE, JList(<<>>)), Answer(200, FALSE, JNull),
      Answer(404, FALSE, JNull), Raised }

CityAnswers == { Answer(200, TRUE, DataDocument), Answer(500, FALSE, JNull) }

\* answers of the geocoder
PlacesDocument ==
    JDict(<<[k |-> <<"p", "l", "a", "c", "e", "s">>,
             v |-> JList(<<JDict(<<[k |-> <<"p", "l", "a", "c", "e", " ", "n", "a", "m", "e">>, v |-> JStr(<<"S", "t", ".", " ", "L", "o", "u", "i", "s">>)],
                                   [k |-> <<"s", "t", "a", "t", "e", " ", "a", "b", "b", "r", "e", "v", "i", "a", "t", "i", "o", "n">>, v |-> JStr(<<"m", "o">>)]>>)>>)]>>)

GeoAnswers == { Answer(200, TRUE, PlacesDocument), Answer(404, FALSE, JNull) }

\* GSA_API_KEY
ApiKeys == { <<"k", "e", "y">>, <<" ">> }

PerDiemCalls ==
    { [op |-> "perdiem", today |-> today, api_key |-> api_key,
       net |-> [zip |-> z, geo |-> g, city |-> c]] @@ PerDiemRequest(location, text, placement, debug)
        : today \in PerDiemTodays, api_key \in ApiKeys, z \in ZipAnswers, g \in GeoAnswers,
          c \in CityAnswers, location \in Locations, text \in TravelDateTexts,
          placement \in Placements, debug \in BOOLEAN }

PerDiemInit ==
    /\ ledger = MissingFile
    /\ env_overrides = UnsetEnv
    /\ ROWS = NoneSlot
    /\ DEPT_ENTRIES = NoneSlot
    /\ DEPT_EMAIL_OVERRIDES = NoneSlot
    /\ load_count = NoLoads
    /\ d_pc = "call"
    /\ d_call \in PerDiemCalls
    /\ d_ret = [op |-> "none"]
    /\ th = <<>>
    /\ RefIdle
    /\ ImportIdle

\* per_diem_lookup(req)
PerDiemLookup ==
    /\ d_pc = "call"
    /\ d_call.op = "perdiem"
    /\ d_pc' = "done"
    /\ \E r \in {PerDiemLookupResult(d_call)} : d_ret' = [op |-> "perdiem"] @@ r
    /\ UNCHANGED <<ledger, env_overrides, ROWS, DEPT_ENTRIES, DEPT_EMAIL_OVERRIDES,
                   load_count, d_call, th>>
    /\ UNCHANGED refVars
    /\ UNCHANGED importVars

PerDiemNext == PerDiemLookup

SpecPerDiem == PerDiemInit /\ [][PerDiemNext]_vars
----------------------------------------------------------------------------
(* Claims about per_diem_lookup *)

PerDiemDone == d_pc = "done" /\ d_call.op = "perdiem"

\* C23: when the travel date of a per-diem lookup is absent or unparseable,
\* no request to the rate service carries a year derived from today's date
C23_TodayNotSubstituted ==
    (PerDiemDone /\ ~d_ret.travel_date.ok) =>
        \A i \in 1..Len(d_ret.requests) : d_ret.requests[i].year /= FiscalYear(d_call.today)
----------------------------------------------------------------------------
(* The two directory lookups on one request *)

\* the payload FoundPath gives from the caches, the environment and the
\* ledger as they are
FoundAnswer(key, email_out, display_name, job_title, department_name, name_out) ==
    LET overrides == OverridesAfterLoad(DEPT_EMAIL_OVERRIDES, env_overrides).value
        reads == DepartmentReadsLedger(key, overrides, department_name)
        entries == IF reads THEN EntriesAfterLoad(DEPT_ENTRIES, ledger).value ELSE <<>>
    IN  FoundResponse(email_out, display_name, job_title, name_out,
                      DepartmentOf(key, overrides, department_name, entries))

\* the response of orgchart_lookup (op "orgchart_lookup") or of
\* orgchart_lookup_upn to a request with the identifier given, when the
\* directory search returns search
LookupAnswer(op, identifier, search) ==
    LET email == Strip(identifier)
        doc == search.doc
        resolved_email == PyStr(ResolvedEmail(doc, email))
        chunk_obj == ChunkObj(doc)
    IN  IF email = <<>> THEN RequiredResponse
        ELSE IF search.err THEN SearchErrorResponse(email)
        ELSE IF ~Truthy(doc) THEN NotFoundResponse(email)
        ELSE IF op = "orgchart_lookup"
        THEN FoundAnswer(OverrideKey(resolved_email),
                         Lower(Strip(resolved_email)),
                         Strip(PyStr(LookupDisplayName(doc))),
                         Strip(PyStr(LookupJobTitle(doc))),
                         PyStr(LookupDepartmentName(doc)),
                         Strip(PyStr(LookupDepartmentName(doc))))
        ELSE FoundAnswer(OverrideKey(email),
                         Strip(Lower(email)),
                         GetFirstStr(chunk_obj, <<"DisplayName", "displayName">>),
                         GetFirstStr(chunk_obj, <<"JobTitle", "jobTitle">>),
                         GetFirstStr(chunk_obj, <<"Department", "department">>),
                         GetFirstStr(chunk_obj, <<"Department", "department">>))

\* the other endpoint
OtherLookup(op) == IF op = "orgchart_lookup" THEN "orgchart_lookup_upn" ELSE "orgchart_lookup"

\* the fields of a response the two endpoints are compared on
SharedFields(r) ==
    <<r.email, r.displayName, r.jobTitle, r.departmentName, r.departmentCode,
      r.departmentNameMapped, r.departmentMatchType, r.departmentCandidates>>

\* the answer given is the answer LookupAnswer computes
AnswerIsLookupAnswer ==
    (d_pc = "done" /\ d_call.op \in {"orgchart_lookup", "orgchart_lookup_upn"})
        => d_ret = LookupAnswer(d_call.op, d_call.email, d_call.search)

\* C29: for the same identifier, the same directory search result and the
\* same override map, orgchart_lookup and orgchart_lookup_upn return the
\* same email, displayName, jobTitle, departmentName, departmentCode,
\* departmentNameMapped, departmentMatchType and departmentCandidates
C29_UpnIdenticalToLookup ==
    LookupFound =>
        SharedFields(d_ret)
            = SharedFields(LookupAnswer(OtherLookup(d_call.op), d_call.email, d_call.search))
----------------------------------------------------------------------------
(* _orgchart_search_by_email *)

\* re.fullmatch(r"[^@\s]+@[^@\s]+\.[^@\s]+", t)
TitleIsEmail(t) ==
    /\ Cardinality(PlacesOf(t, "@")) = 1
    /\ PlacesOf(t, " ") = {}
    /\ \E a \in PlacesOf(t, "@"), dot \in PlacesOf(t, ".") :
          a > 1 /\ dot > a + 1 /\ dot < Len(t)

\* re.search(r"([^/\\]+@[^/\\]+\.[^/\\]+)\.json", p, flags=re.IGNORECASE):
\* the matches as <<start, place of @, place of ., end>> of group 1, the
\* leftmost start first and each part as long as the rest allows
ParentMatches(p) ==
    { m \in { <<IF \E k \in 1..a : p[k] \in {"/", "\\"}
                THEN 1 + CHOOSE k \in 1..a : /\ p[k] \in {"/", "\\"}
                                             /\ \A n \in (k + 1)..a : p[n] \notin {"/", "\\"}
                ELSE 1,
                a, dot, j - 1>>
                : a \in PlacesOf(p, "@"), dot \in PlacesOf(p, "."),
                  j \in { n \in PlacesOf(p, ".") : /\ n + 4 <= Len(p)
                                                   /\ Lower(SubSeq(p, n, n + 4)) = <<".", "j", "s", "o", "n">> } } :
        /\ m[1] < m[2]
        /\ m[2] + 1 < m[3]
        /\ m[3] < m[4]
        /\ \A k \in m[2]..m[4] : p[k] \notin {"/", "\\"} }

ParentEmail(p) ==
    LET ms == ParentMatches(p)
        leftmost == { m \in ms : \A n \in ms : m[1] <= n[1] }
        longest1 == { m \in leftmost : \A n \in leftmost : m[2] >= n[2] }
        longest2 == { m \in longest1 : \A n \in longest1 : m[3] >= n[3] }
        best == CHOOSE m \in longest2 : \A n \in longest2 : m[4] >= n[4]
    IN  IF ms = {} THEN <<>> ELSE SubSeq(p, best[1], best[4])

\* the first of the keys whose value in d is truthy, as str(v).strip().lower()
RECURSIVE FirstEmailUnder(_, _)
FirstEmailUnder(d, keys) ==
    IF keys = <<>> THEN <<>>
    ELSE IF Truthy(Get(d, Head(keys))) THEN Lower(Strip(PyStr(Get(d, Head(keys)))))
    ELSE FirstEmailUnder(d, Tail(keys))

FieldKeys(email_field) ==
    <<email_field, "email", "upn", "userPrincipalName", "mail", "Email", "UPN", "Mail">>

ChunkKeys == <<"UPN", "Mail", "Email", "email", "upn", "userPrincipalName", "mail">>

\* _doc_email(d)
DocEmail(d, email_field) ==
    LET title == Get(d, "title")
        parent_id == IF Truthy(Get(d, "parent_id")) THEN Get(d, "parent_id")
                     ELSE IF Truthy(Get(d, "parentId")) THEN Get(d, "parentId")
                     ELSE JStr(<<>>)
    IN  IF Truthy(title) /\ TitleIsEmail(Lower(Strip(PyStr(title))))
        THEN Lower(Strip(PyStr(title)))
        ELSE IF Truthy(parent_id) /\ ParentEmail(Strip(PyStr(parent_id))) /= <<>>
        THEN Lower(Strip(ParentEmail(Strip(PyStr(parent_id)))))
        ELSE IF FirstEmailUnder(d, FieldKeys(email_field)) /= <<>>
        THEN FirstEmailUnder(d, FieldKeys(email_field))
        ELSE FirstEmailUnder(ChunkObj(d), ChunkKeys)

\* lines 358 and 421: the documents of a response whose email is the one asked
RECURSIVE ExactDocs(_, _, _)
ExactDocs(docs, email_l, email_field) ==
    IF docs = <<>> THEN <<>>
    ELSE (IF IsDict(Head(docs)) /\ DocEmail(Head(docs), email_field) = email_l
          THEN <<Head(docs)>> ELSE <<>>) \o ExactDocs(Tail(docs), email_l, email_field)

\* data.get("value") or []
ValueOf(data) == IF Truthy(Get(data, "value")) THEN Get(data, "value").elems ELSE <<>>

\* what a stage makes of its exact matches: the first of any number returned
StageVerdictFirstOfAny(exact) ==
    IF exact /= <<>> THEN [doc |-> exact[1], err |-> "none"]
    ELSE [doc |-> JNull, err |-> "none"]

\* lines 361-364 and 424-428: one exact match is returned, more are an error
StageVerdict(exact) ==
    IF Len(exact) = 1 THEN [doc |-> exact[1], err |-> "none"]
    ELSE IF Len(exact) > 1 THEN [doc |-> JNull, err |-> "multiple exact matches"]
    ELSE [doc |-> JNull, err |-> "none"]

\* a POST to the index
SearchPost(mode, text, top, fields) == [mode |-> mode, text |-> text, top |-> top, fields |-> fields]

\* _search_then_exact(search_text, top) when the service answers first and,
\* after a 400, retry: (doc, err, docs_local) and the posts made
SearchThenExact(search_text, top, first, retry, email_l, email_field) ==
    LET again == ~first.raised /\ first.status = 400
        r == IF again THEN retry ELSE first
        posts == IF again THEN <<SearchPost("search", search_text, top, TRUE),
                                 SearchPost("search", search_text, top, FALSE)>>
                 ELSE <<SearchPost("search", search_text, top, TRUE)>>
    IN  IF r.raised THEN [doc |-> JNull, err |-> "request failed", docs |-> <<>>, posts |-> posts]
        ELSE IF r.status /= 200
        THEN [doc |-> JNull, err |-> "search failed", docs |-> <<>>, posts |-> posts]
        ELSE IF ~r.json
        THEN [doc |-> JNull, err |-> "invalid JSON", docs |-> <<>>, posts |-> posts]
        ELSE StageVerdict(ExactDocs(ValueOf(r.body), email_l, email_field))
             @@ [docs |-> ValueOf(r.body), posts |-> posts]

\* re.sub(r"[^a-z0-9]+", "_", s).strip("_")
RECURSIVE Underscored(_)
Underscored(s) ==
    IF s = <<>> THEN <<>>
    ELSE LET plain(c) == IsDigit(c) \/ \E i \in 1..Len(LowerLetters) : LowerLetters[i] = c
         IN  IF plain(Head(s)) THEN <<Head(s)>> \o Underscored(Tail(s))
             ELSE IF Len(s) > 1 /\ ~plain(s[2]) THEN Underscored(Tail(s))
             ELSE <<"_">> \o Underscored(Tail(s))

NormalizedId(email_l) ==
    LET u == Underscored(email_l)
        lead == IF u /= <<>> /\ Head(u) = "_" THEN Tail(u) ELSE u
    IN  IF lead /= <<>> /\ lead[Len(lead)] = "_" THEN SubSeq(lead, 1, Len(lead) - 1) ELSE lead

\* email_l.split("@", 1)[0].strip()
LocalPart(email_l) ==
    IF PlacesOf(email_l, "@") = {} THEN Strip(email_l)
    ELSE Strip(SubSeq(email_l, 1,
                      (CHOOSE i \in PlacesOf(email_l, "@") :
                          \A j \in PlacesOf(email_l, "@") : i <= j) - 1))

\* lines 430-459: the searches after the filter, in order
Fallbacks(email_l) ==
    <<[stage |-> "full", text |-> email_l, top |-> 10]>>
    \o (IF LocalPart(email_l) /= <<>>
        THEN <<[stage |-> "local", text |-> LocalPart(email_l), top |-> 50]>> ELSE <<>>)
    \o (IF NormalizedId(email_l) /= <<>>
        THEN <<[stage |-> "chunk0", text |-> NormalizedId(email_l) \o <<"_", "0">>, top |-> 50],
               [stage |-> "chunk", text |-> NormalizedId(email_l), top |-> 50]>>
        ELSE <<>>)

\* the fallbacks run one after the other until one has an error or a document
RECURSIVE RunFallbacks(_, _, _, _, _, _)
RunFallbacks(todo, docs, posts, net, email_l, email_field) ==
    IF todo = <<>>
    THEN [doc |-> JNull,
          err |-> IF docs /= <<>> THEN "none matched" ELSE "none",
          posts |-> posts]
    ELSE LET s == Head(todo)
             got == SearchThenExact(s.text, s.top, net[s.stage].first, net[s.stage].retry,
                                    email_l, email_field)
         IN  IF got.err /= "none"
             THEN [doc |-> JNull, err |-> got.err, posts |-> posts \o got.posts]
             ELSE IF Truthy(got.doc)
             THEN [doc |-> got.doc, err |-> "none", posts |-> posts \o got.posts]
             ELSE RunFallbacks(Tail(todo),
                               IF s.stage = "full" \/ got.docs /= <<>> THEN got.docs ELSE docs,
                               posts \o got.posts, net, email_l, email_field)

\* _orgchart_search_by_email(email): (doc, err) and the posts made. env is
\* the configuration, net what the index answers at each stage
OrgchartSearchByEmail(email, env, net) ==
    LET email_field == IF env.email_field = "" THEN "email" ELSE env.email_field
        email_l == Lower(Strip(email))
        filter_post == SearchPost("filter", email_l, 5, FALSE)
        verdict == StageVerdict(ExactDocs(ValueOf(net.filter.body), email_l, email_field))
    IN  IF Strip(env.endpoint) = <<>> \/ Strip(env.index_name) = <<>> \/ Strip(env.api_key) = <<>>
        THEN [doc |-> JNull, err |-> "not configured", posts |-> <<>>]
        ELSE IF net.filter.raised
        THEN [doc |-> JNull, err |-> "request failed", posts |-> <<filter_post>>]
        ELSE IF net.filter.status = 200 /\ ~net.filter.json
        THEN [doc |-> JNull, err |-> "invalid JSON", posts |-> <<filter_post>>]
        ELSE IF net.filter.status = 200 /\ (verdict.err /= "none" \/ verdict.doc /= JNull)
        THEN verdict @@ [posts |-> <<filter_post>>]
        ELSE RunFallbacks(Fallbacks(email_l), <<>>, <<filter_post>>, net, email_l, email_field)
----------------------------------------------------------------------------
(* Inputs of _orgchart_search_by_email *)

\* documents of the index that carry bob@core.coop in a field, in the title,
\* in the parent id, in the chunk and in the configured field; others
BobByField == [t |-> "obj", email |-> JStr(<<" ", "B", "o", "b", "@", "C", "o", "r", "e", ".", "c", "o", "o", "p">>)]

BobByTitle == [t |-> "obj", title |-> JStr(<<"B", "O", "B", "@", "c", "o", "r", "e", ".", "c", "o", "o", "p", " ">>), email |-> JStr(<<"a", "m", "y", "@", "c", "o", "r", "e", ".", "c", "o", "o", "p">>)]

BobByParent == [t |-> "obj", parent_id |-> JStr(<<"K", "B", "O", "C", "/", "a", "@", "b", "/", "B", "o", "b", "@", "C", "o", "r", "e", ".", "c", "o", "o", "p", ".", "j", "s", "o", "n">>)]

\* a parent id that names bob@core.coop.json
NearlyBob == [t |-> "obj", parentId |-> JStr(<<"b", "o", "b", "@", "c", "o", "r", "e", ".", "c", "o", "o", "p", ".", "J", "S", "O", "N", ".", "j", "s", "o", "n">>), upn |-> JStr(<<"b", "o", "b", "@", "c", "o", "r", "e", ".", "c", "o", "o", "p">>)]

BobByChunk ==
    [t |-> "obj",
     chunk |-> JText(<<"{", "c", "h", "u", "n", "k", "}">>, TRUE, [t |-> "obj", Mail |-> JStr(<<"b", "o", "b", "@", "c", "o", "r", "e", ".", "c", "o", "o", "p">>)])]

BobAtWork == [t |-> "obj", workEmail |-> JStr(<<"b", "o", "b", "@", "c", "o", "r", "e", ".", "c", "o", "o", "p">>), email |-> JStr(<<"a", "m", "y", "@", "c", "o", "r", "e", ".", "c", "o", "o", "p">>)]

AmyDoc == [t |-> "obj", title |-> JStr(<<"O", "r", "g", " ", "c", "h", "a", "r", "t">>), email |-> JStr(<<"a", "m", "y", "@", "c", "o", "r", "e", ".", "c", "o", "o", "p">>)]

\* the value of a response
DocLists ==
    { <<>>, <<AmyDoc>>, <<JStr(<<"x">>), BobByField>>, <<BobByTitle, BobByParent>>,
      <<BobByChunk, AmyDoc>>, <<BobAtWork>>, <<NearlyBob>> }

Found(docs) == Answer(200, TRUE, [t |-> "obj", value |-> JList(docs)])

FilterAnswers ==
    { Found(docs) : docs \in DocLists \ {<<JStr(<<"x">>), BobByField>>, <<BobByChunk, AmyDoc>>} }
    \cup { Answer(200, FALSE, JNull), Answer(400, FALSE, JNull), Raised }

\* the answer to a search and, after a 400, to the search repeated
Once(answer) == [first |-> answer, retry |-> Raised]

FullAnswers ==
    { Once(Found(docs)) : docs \in {<<>>, <<AmyDoc>>, <<JStr(<<"x">>), BobByField>>, <<BobByTitle, BobByParent>>} }
    \cup { [first |-> Answer(400, FALSE, JNull), retry |-> Found(<<BobByChunk, AmyDoc>>)],
           [first |-> Answer(400, FALSE, JNull), retry |-> Answer(400, FALSE, JNull)] }

LocalAnswers ==
    { Once(Found(docs)) : docs \in {<<>>, <<BobAtWork>>, <<BobByTitle, BobByParent>>} }
    \cup { Once(Raised) }

ChunkAnswers ==
    { Once(Found(docs)) : docs \in {<<>>, <<BobByChunk, AmyDoc>>, <<BobByField, BobByChunk>>} }

LastAnswers == { Once(Found(<<>>)), Once(Found(<<BobByChunk>>)), Once(Answer(503, FALSE, JNull)) }

\* the email asked for: the callers pass what is left of the parameter once
\* stripped, never the empty string
SearchEmails == { <<"B", "o", "b", "@", "c", "o", "r", "e", ".", "c", "o", "o", "p">>, <<"b", "o", "b">>, <<"@", "c", "o", "r", "e", ".", "c", "o", "o", "p">>, <<"@">> }

SearchEnvs ==
    { [endpoint |-> <<"c", "o", "r", "e", "-", "s", "e", "a", "r", "c", "h">>, index_name |-> <<"o", "r", "g", "c", "h", "a", "r", "t">>, api_key |-> k, email_field |-> f]
        : k \in {<<"k", "e", "y">>}, f \in {"", "workEmail"} }
    \cup { [endpoint |-> <<"c", "o", "r", "e", "-", "s", "e", "a", "r", "c", "h">>, index_name |-> <<"o", "r", "g", "c", "h", "a", "r", "t">>, api_key |-> <<" ">>,
            email_field |-> ""] }

SearchCalls ==
    { [op |-> "search", email |-> e, env |-> env,
       net |-> [filter |-> a, full |-> b, local |-> c, chunk0 |-> d, chunk |-> g]]
        : e \in SearchEmails, env \in SearchEnvs, a \in FilterAnswers, b \in FullAnswers,
          c \in LocalAnswers, d \in ChunkAnswers, g \in LastAnswers }

SearchInit ==
    /\ ledger = MissingFile
    /\ env_overrides = UnsetEnv
    /\ ROWS = NoneSlot
    /\ DEPT_ENTRIES = NoneSlot
    /\ DEPT_EMAIL_OVERRIDES = NoneSlot
    /\ load_count = NoLoads
    /\ d_pc = "call"
    /\ d_call \in SearchCalls
    /\ d_ret = [op |-> "none"]
    /\ th = <<>>
    /\ RefIdle
    /\ ImportIdle

\* _orgchart_search_by_email(email)
SearchByEmail ==
    /\ d_pc = "call"
    /\ d_call.op = "search"
    /\ d_pc' = "done"
    /\ \E r \in {OrgchartSearchByEmail(d_call.email, d_call.env, d_call.net)} :
          d_ret' = [op |-> "search"] @@ r
    /\ UNCHANGED <<ledger, env_overrides, ROWS, DEPT_ENTRIES, DEPT_EMAIL_OVERRIDES,
                   load_count, d_call, th>>
    /\ UNCHANGED refVars
    /\ UNCHANGED importVars

SearchNext == SearchByEmail

SpecSearch == SearchInit /\ [][SearchNext]_vars
----------------------------------------------------------------------------
(* Claims about _orgchart_search_by_email *)

SearchDone == d_pc = "done" /\ d_call.op = "search"

\* the lower-cased email asked for and the configured email field
AskedEmail == Lower(Strip(d_call.email))

AskedField == IF d_call.env.email_field = "" THEN "email" ELSE d_call.env.email_field

\* the stages of the fallback chain for the email asked, in order
Chain ==
    <<"filter">> \o [i \in 1..Len(Fallbacks(AskedEmail)) |-> Fallbacks(AskedEmail)[i].stage]

\* the answer a stage reads: a search rejected with 400 is repeated
StageAnswer(stage) ==
    IF stage = "filter" THEN d_call.net.filter
    ELSE IF ~d_call.net[stage].first.raised /\ d_call.net[stage].first.status = 400
    THEN d_call.net[stage].retry
    ELSE d_call.net[stage].first

\* the documents of a stage whose extracted email is the email asked
ExactAt(stage) ==
    LET a == StageAnswer(stage)
    IN  IF ~a.raised /\ a.status = 200 /\ a.json
        THEN ExactDocs(ValueOf(a.body), AskedEmail, AskedField)
        ELSE <<>>

\* the number of stages that sent a request: a stage's first post is the
\* filter or carries searchFields
StagesTried ==
    Cardinality({ i \in 1..Len(d_ret.posts) :
                    d_ret.posts[i].mode = "filter" \/ d_ret.posts[i].fields })

\* C30: a document is returned only when the first stage of the chain that
\* has any exact match has exactly one, and it is that document; a stage
\* tried that has two or more exact matches ends the lookup with an error
\* and no document; no stage after one with an exact match is tried; and
\* the extracted email of a returned document is the email asked
C30_OnlyTheSingleExactMatch ==
    SearchDone =>
        \A chain \in {Chain} :
        \A exact \in {[k \in 1..Len(chain) |-> ExactAt(chain[k])]} :
        \A tried \in {StagesTried} :
            /\ d_ret.doc /= JNull =>
                 \E k \in 1..Len(chain) :
                    /\ exact[k] = <<d_ret.doc>>
                    /\ \A j \in 1..(k - 1) : exact[j] = <<>>
            /\ \A k \in 1..tried :
                 /\ Len(exact[k]) >= 2
                       => (d_ret.doc = JNull /\ d_ret.err = "multiple exact matches")
                 /\ exact[k] /= <<>> => tried = k
            /\ d_ret.doc /= JNull => DocEmail(d_ret.doc, AskedField) = AskedEmail

\* a document found by the local-part search, after a filter and a full
\* search that returned other documents, with two exact matches waiting in
\* a later stage
C30_Witness ==
    /\ SearchDone
    /\ d_ret.doc /= JNull
    /\ StagesTried = 3
    /\ ValueOf(StageAnswer("filter").body) /= <<>>
    /\ Len(ExactAt("chunk0")) >= 2
----------------------------------------------------------------------------
(* submit_report after the CSV is written, and _purge_sharepoint_items *)

\* a JSON true or false
JBool(b) == [t |-> "bool", b |-> b]

TrueWords == { <<"1">>, <<"t", "r", "u", "e">>, <<"y", "e", "s">>, <<"y">> }

FalseWords == { <<"0">>, <<"f", "a", "l", "s", "e">>, <<"n", "o">>, <<"n">> }

\* payload[k] = v
Put(obj, k, v) == [x \in DOMAIN obj \cup {k} |-> IF x = k THEN v ELSE obj[x]]

\* _q(name): the query string is a record of the parameters given
QueryParam(query, name) == IF name \in DOMAIN query THEN Strip(query[name]) ELSE <<>>

\* the keys of lines 3058-3070
StringParams ==
    <<"toEmail", "fromUser", "requesterEmail", "ccEmails", "subject", "bodyText",
      "bodyHtml", "receiptBundleFormat", "sharepointFileUrls", "receiptUploadId",
      "draftItemsJson">>

BoolParams == <<"sendEmail", "ccRequester", "purgeSharepointReceipts", "allowMissingReceipts">>

\* the value of the query string under a key: draftItemsJson is JSON text
QueryValue(r, k) ==
    IF k = "draftItemsJson"
    THEN (IF r.query_draft.t = "str" /\ Strip(r.query_draft.s) /= <<>>
          THEN r.query_draft ELSE JNull)
    ELSE (IF QueryParam(r.query, k) /= <<>> THEN JStr(QueryParam(r.query, k)) ELSE JNull)

\* `x in {None, ""}` raises TypeError for a list or a dict
Unhashable(v) == v.t \in { "list", "obj" }

\* lines 3071-3073: failed when the test of line 3072 raised
RECURSIVE MergeStrings(_, _, _)
MergeStrings(payload, keys, r) ==
    IF keys = <<>> THEN [payload |-> payload, failed |-> FALSE]
    ELSE LET v == QueryValue(r, Head(keys))
             held == Get(payload, Head(keys))
         IN  IF v = JNull THEN MergeStrings(payload, Tail(keys), r)
             ELSE IF Unhashable(held) THEN [payload |-> payload, failed |-> TRUE]
             ELSE IF held = JNull \/ (held.t = "str" /\ held.s = <<>>)
             THEN MergeStrings(Put(payload, Head(keys), v), Tail(keys), r)
             ELSE MergeStrings(payload, Tail(keys), r)

\* lines 3075-3078 with _q_bool
RECURSIVE MergeBools(_, _, _)
MergeBools(payload, keys, r) ==
    IF keys = <<>> THEN payload
    ELSE LET v == Lower(QueryParam(r.query, Head(keys)))
             known == v \in TrueWords \cup FalseWords
         IN  MergeBools(IF known /\ Get(payload, Head(keys)) = JNull
                        THEN Put(payload, Head(keys), JBool(v \in TrueWords)) ELSE payload,
                        Tail(keys), r)

\* lines 3042-3080: an exception ends the merge where it stands
MergeQuery(payload, r) ==
    LET merged == MergeStrings(payload, StringParams, r)
    IN  IF merged.failed THEN merged.payload ELSE MergeBools(merged.payload, BoolParams, r)

\* lines 3104-3114
MergeConversation(payload, header_conversation_id) ==
    IF /\ Strip(header_conversation_id) /= <<>>
       /\ "conversationId" \notin DOMAIN payload
       /\ "ConversationId" \notin DOMAIN payload
    THEN Put(payload, "conversationId", JStr(Strip(header_conversation_id)))
    ELSE payload

\* the payload of submit_report at line 3118
MergedPayload(r) == MergeConversation(MergeQuery(SubmitBodyPayload(r), r), r.conversation_header)

\* _payload_bool(name, default)
PayloadBool(payload, name, default) ==
    LET v == Get(payload, name)
    IN  IF v.t = "null" THEN default
        ELSE IF v.t = "bool" THEN v.b
        ELSE IF v.t = "num" THEN v.n /= 0
        ELSE IF v.t = "str" /\ Lower(Strip(v.s)) \in TrueWords THEN TRUE
        ELSE IF v.t = "str" /\ Lower(Strip(v.s)) \in FalseWords THEN FALSE
        ELSE default

\* lines 3203-3208: the items looked at for receipts
SubmitItems(payload) ==
    LET given == Get(payload, "items")
        draft == Get(payload, "draftItemsJson")
    IN  IF given = JNull /\ IsStr(draft)
        THEN (IF JsonLoadsRaises(draft) THEN JNull ELSE JsonLoads(draft))
        ELSE given

\* lines 3214-3215
IsReceiptItem(it) ==
    /\ IsDict(it)
    /\ Lower(Strip(PyStr(FirstTruthy(it, <<"type", "mode">>, JStr(<<>>)))))
          \in { <<"r", "e", "c", "e", "i", "p", "t">>, <<"b", "o", "o", "t", "s">> }

\* has_receipts
HasReceipts(payload) ==
    /\ IsList(SubmitItems(payload))
    /\ \E i \in 1..Len(SubmitItems(payload).elems) : IsReceiptItem(SubmitItems(payload).elems[i])

AppendNew(ids, id) ==
    IF id /= <<>> /\ ~(\E i \in 1..Len(ids) : ids[i] = id) THEN Append(ids, id) ELSE ids

\* item_upload_ids, lines 3218-3229
RECURSIVE UploadIdsOf(_, _)
UploadIdsOf(items, ids) ==
    IF items = <<>> THEN ids
    ELSE IF ~IsReceiptItem(Head(items)) THEN UploadIdsOf(Tail(items), ids)
    ELSE LET it == Head(items)
             item_upload_id ==
                 Strip(PyStr(FirstTruthy(it, <<"receiptUploadId", "uploadId">>, JStr(<<>>))))
             auth_upload_id ==
                 Strip(PyStr(FirstTruthy(it, <<"bootAuthorizationUploadId",
                                               "bootsAuthorizationUploadId",
                                               "authorizationUploadId">>, JStr(<<>>))))
         IN  UploadIdsOf(Tail(items), AppendNew(AppendNew(ids, item_upload_id), auth_upload_id))

ItemUploadIds(payload) ==
    IF IsList(SubmitItems(payload)) THEN UploadIdsOf(SubmitItems(payload).elems, <<>>) ELSE <<>>

\* the parts of a list that are not blank, stripped
RECURSIVE StrippedParts(_)
StrippedParts(parts) ==
    IF parts = <<>> THEN <<>>
    ELSE (IF Strip(Head(parts)) /= <<>> THEN <<Strip(Head(parts))>> ELSE <<>>)
         \o StrippedParts(Tail(parts))

\* _parse_csvish(value)
ParseCsvish(value) ==
    IF value.t = "list" THEN StrippedParts([i \in 1..Len(value.elems) |-> PyStr(value.elems[i])])
    ELSE IF value.t = "str" THEN StrippedParts(SplitOn(value.s, ","))
    ELSE <<>>

SharepointDriveId(payload) ==
    Coalesce(<<Get(payload, "sharepointDriveId"), Get(payload, "sharePointDriveId"),
               Get(payload, "spDriveId")>>)

\* _parse_sharepoint_item_ids(payload) and _parse_sharepoint_urls(payload)
SharepointItemIds(payload) ==
    ParseCsvish(FirstTruthy(payload, <<"sharepointItemIds", "sharePointItemIds", "spItemIds",
                                       "receiptSharepointItemIds", "receiptSharePointItemIds",
                                       "receiptItemIds">>, JNull))

SharepointUrls(payload) ==
    ParseCsvish(FirstTruthy(payload, <<"sharepointFileUrls", "sharePointFileUrls",
                                       "sharepointUrls", "sharePointUrls",
                                       "receiptSharepointUrls", "receiptSharePointUrls",
                                       "receiptUrls">>, JNull))

\* all_upload_ids, lines 3265-3268
AllUploadIds(payload) ==
    LET receipt_upload_id ==
            Coalesce(<<Get(payload, "receiptUploadId"), Get(payload, "ReceiptUploadId"),
                       Get(payload, "uploadId"), Get(payload, "UploadId")>>)
        ids == ItemUploadIds(payload)
    IN  IF receipt_upload_id /= <<>> /\ ~(\E i \in 1..Len(ids) : ids[i] = receipt_upload_id)
        THEN <<receipt_upload_id>> \o ids ELSE ids

\* the attachments held and the error recorded; error "none" is None
Held(count, bytes, zipped, error) ==
    [count |-> count, bytes |-> bytes, zipped |-> zipped, error |-> error]

NothingHeld == Held(0, 0, FALSE, "none")

\* lines 3231-3234: the attachments of the payload, as the builder gives them
AfterProvided(payload, env, held) ==
    IF Get(payload, "attachments") /= JNull
    THEN [held |-> Held(env.built.count, env.built.bytes, env.built.zipped, env.built.error),
          calls |-> <<[call |-> "build_receipt_attachments"]>>]
    ELSE [held |-> held, calls |-> <<>>]

\* a source of receipts is asked only for receipt items or on request, while
\* no error is recorded and no attachment is held
WantsReceipts(payload, held) ==
    /\ HasReceipts(payload) \/ PayloadBool(payload, "fetchReceiptsFromThread", FALSE)
    /\ held.error = "none"
    /\ held.count = 0

\* what a source that downloads and bundles leaves: its error, or its bundle
Fetched(outcome, held) ==
    IF outcome.error /= "none" THEN [held EXCEPT !.error = outcome.error]
    ELSE Held(outcome.count, outcome.bytes, outcome.zipped, held.error)

\* lines 3237-3261
AfterSharepoint(payload, env, held) ==
    IF /\ WantsReceipts(payload, held)
       /\ \/ SharepointDriveId(payload) /= <<>> /\ SharepointItemIds(payload) /= <<>>
          \/ SharepointUrls(payload) /= <<>>
    THEN [held |-> Fetched(env.sharepoint, held),
          calls |-> <<[call |-> "download_receipts_from_sharepoint"]>>]
    ELSE [held |-> held, calls |-> <<>>]

\* lines 3270-3304: every upload id is downloaded; the downloads of the
\* model fail together or succeed together
AfterBlob(payload, env, held) ==
    IF WantsReceipts(payload, held) /\ AllUploadIds(payload) /= <<>>
    THEN [held |-> Fetched(env.blob, held),
          calls |-> [i \in 1..Len(AllUploadIds(payload)) |->
                        [call |-> "download_receipts_from_blob", id |-> AllUploadIds(payload)[i]]]]
    ELSE [held |-> held, calls |-> <<>>]

\* lines 3308-3333
AfterFoundry(payload, env, held) ==
    IF /\ WantsReceipts(payload, held)
       /\ \/ Truthy(FirstTruthy(payload, <<"conversationId", "ConversationId", "threadId",
                                           "ThreadId">>, JNull))
          \/ Truthy(FirstTruthy(payload, <<"foundryFileIds", "fileIds", "file_ids">>, JNull))
          \/ Truthy(FirstTruthy(payload, <<"receiptFilenameHints", "filenameHints",
                                           "receiptNames">>, JNull))
          \/ PayloadBool(payload, "fetchReceiptsFromThread", FALSE)
    THEN [held |-> Fetched(env.foundry, held),
          calls |-> <<[call |-> "build_receipts_zip_from_foundry"]>>]
    ELSE [held |-> held, calls |-> <<>>]

\* the final safety of lines 3336-3345 passed over
MissingReceiptsAllowed(requested_send_email, has_receipts, held, allow_missing_receipts) ==
    held

\* lines 3336-3345: receipt items and nothing attached is an error unless allowed
MissingReceipts(requested_send_email, has_receipts, held, allow_missing_receipts) ==
    IF requested_send_email /\ has_receipts /\ held.count = 0 /\ ~allow_missing_receipts
    THEN [held EXCEPT !.error = "Receipt files missing"]
    ELSE held

\* int(os.getenv("GRAPH_MAX_ATTACHMENT_BYTES") or "7000000"): the variable
\* is unset or digits
DefaultMaxAttachmentBytes == 7000000

MaxAttachmentBytes(env) ==
    IF env.max_bytes = <<>> THEN DefaultMaxAttachmentBytes ELSE NatVal(Strip(env.max_bytes))

\* the gates of lines 3347-3352 without the test of the GL accounts
GateErrorNoLedgerTest(requested_send_email, enable_email_default, from_user, missing, error) ==
    IF requested_send_email /\ ~enable_email_default THEN "Email sending is disabled"
    ELSE IF requested_send_email /\ from_user = <<>> THEN "MAIL_FROM_USER is required"
    ELSE error

\* lines 3347-3352: the error after the gates that come before the send
GateError(requested_send_email, enable_email_default, from_user, missing, error) ==
    IF requested_send_email /\ ~enable_email_default THEN "Email sending is disabled"
    ELSE IF requested_send_email /\ from_user = <<>> THEN "MAIL_FROM_USER is required"
    ELSE IF requested_send_email /\ missing > 0 THEN "Missing GL Account"
    ELSE error

\* the branch of line 3353 is reached
SendBranch(requested_send_email, enable_email_default, from_user, missing) ==
    /\ requested_send_email
    /\ enable_email_default
    /\ from_user /= <<>>
    /\ missing = 0

\* the purge run whatever the send returned
PurgeWantedAlways(payload, mail_error) ==
    PayloadBool(payload, "purgeSharepointReceipts", FALSE)

\* line 3378
PurgeWanted(payload, mail_error) ==
    mail_error = "none" /\ PayloadBool(payload, "purgeSharepointReceipts", FALSE)

\* _purge_sharepoint_items(payload): the DELETEs issued, in order, and the
\* error returned. env.resolve tells whether the lookups of the share URLs
\* raise, env.delete_fail which DELETE raises (0: none)
PurgeSharepointItems(payload, env) ==
    LET drive_id == SharepointDriveId(payload)
        item_ids == SharepointItemIds(payload)
        urls == SharepointUrls(payload)
        resolves == urls /= <<>> /\ ~(drive_id /= <<>> /\ item_ids /= <<>>)
        all_ids == IF resolves
                   THEN item_ids \o [i \in 1..Len(urls) |-> <<"i", "t", "e", "m", " ", "o", "f", " ">> \o urls[i]]
                   ELSE item_ids
        drive == IF resolves THEN <<"d", "r", "i", "v", "e", " ", "o", "f", " ", "s", "h", "a", "r", "e">> ELSE drive_id
        last == IF env.delete_fail \in 1..Len(all_ids) THEN env.delete_fail ELSE Len(all_ids)
    IN  IF resolves /\ env.resolve = "raise"
        THEN [deletes |-> <<>>, error |-> "Failed to purge SharePoint receipts"]
        ELSE IF drive = <<>> \/ all_ids = <<>>
        THEN [deletes |-> <<>>, error |-> "none"]
        ELSE [deletes |-> [i \in 1..last |-> [call |-> "graph_delete", drive |-> drive,
                                              item |-> all_ids[i]]],
              error |-> IF env.delete_fail \in 1..Len(all_ids)
                        THEN "Failed to purge SharePoint receipts" ELSE "none"]

\* round(amount_total, 2) of an amount in thousandths
RoundCents(n) ==
    LET q == n \div 10
        r == n % 10
    IN  IF r < 5 THEN q * 10
        ELSE IF r > 5 THEN (q + 1) * 10
        ELSE IF q % 2 = 0 THEN q * 10 ELSE (q + 1) * 10

\* lines 3135-3410 of submit_report for the payload and the rows written:
\* the calls made, in order, and the response, or raised when
\* _graph_send_mail lets an exception of the POST through. env holds the
\* environment variables and what the services outside the handler return;
\* the cc list, the subject and the body of the message are left out
SubmitOutcome(payload, rs, env) ==
    LET enable_email_default == Lower(Strip(env.enable)) \in TrueWords
        requested_send_email == PayloadBool(payload, "sendEmail", TRUE)
        send_email == requested_send_email /\ enable_email_default
        mail_to == Strip(PyStr(FirstTruthy(payload, <<"toEmail">>, JStr(env.mail_to))))
        to_email == IF mail_to /= <<>> THEN mail_to ELSE <<"s", "j", "e", "l", "i", "n", "s", "k", "i", "@", "c", "o", "r", "e", ".", "c", "o", "o", "p">>
        from_user == Strip(PyStr(FirstTruthy(payload, <<"fromUser">>, JStr(env.from_user))))
        has_receipts == HasReceipts(payload)
        allow_missing_receipts == PayloadBool(payload, "allowMissingReceipts", FALSE)
        s1 == AfterProvided(payload, env, NothingHeld)
        s2 == AfterSharepoint(payload, env, s1.held)
        s3 == AfterBlob(payload, env, s2.held)
        s4 == AfterFoundry(payload, env, s3.held)
        fetches == s1.calls \o s2.calls \o s3.calls \o s4.calls
        checked == MissingReceipts(requested_send_email, has_receipts, s4.held,
                                   allow_missing_receipts)
        missing == MissingGlCount(rs)
        gated == GateError(requested_send_email, enable_email_default, from_user, missing,
                           checked.error)
        branch == SendBranch(requested_send_email, enable_email_default, from_user, missing)
        sized == IF branch /\ checked.bytes > MaxAttachmentBytes(env)
                 THEN "Attachments too large" ELSE gated
        sends == branch /\ sized = "none"
        mail_error == IF sends THEN env.mail ELSE sized
        purge == IF sends /\ PurgeWanted(payload, mail_error)
                 THEN PurgeSharepointItems(payload, env)
                 ELSE [deletes |-> <<>>, error |-> "none"]
        calls == fetches
                 \o (IF sends THEN <<[call |-> "graph_send_mail", from_user |-> from_user,
                                      to_email |-> to_email, attachments |-> checked.count]>>
                     ELSE <<>>)
                 \o purge.deletes
    IN  IF sends /\ env.mail = "raise"
        THEN [raised |-> TRUE, calls |-> calls, response |-> JNull, purge_error |-> "none"]
        ELSE [raised |-> FALSE,
              calls |-> calls,
              purge_error |-> purge.error,
              response |->
                 [ok |-> ~requested_send_email \/ (send_email /\ mail_error = "none"),
                  sent |-> send_email /\ mail_error = "none",
                  toEmail |-> to_email,
                  lineCount |-> Len(rs),
                  amountTotal |-> RoundCents(AmountTotal(rs)),
                  emailError |-> mail_error,
                  attachmentCount |-> checked.count,
                  attachmentsZipped |-> checked.zipped,
                  hasReceiptItems |-> has_receipts,
                  fetchReceiptsFromThread |->
                      PayloadBool(payload, "fetchReceiptsFromThread", FALSE),
                  allowMissingReceipts |-> allow_missing_receipts]]
----------------------------------------------------------------------------
(* Inputs of submit_report and the handler as one step *)

\* the fields of extra laid over those of p
With(p, extra) ==
    [k \in DOMAIN p \cup DOMAIN extra |-> IF k \in DOMAIN extra THEN extra[k] ELSE p[k]]

ReceiptItem == BasicItem

UntypedItem ==
    [t |-> "obj", departmentCode |-> JStr(<<"6", "2", "0">>), activityCode |-> JStr(<<"7", "7", "0">>),
     accountCode |-> JStr(<<"5", "5", "0", "0">>), amount |-> JNum(12000), reference |-> JStr(<<"t", "a", "x", "i">>)]

MileageNoAccount ==
    [t |-> "obj", type |-> JStr(<<"m", "i", "l", "e", "a", "g", "e">>), departmentCode |-> JStr(<<"6", "2", "0">>),
     activityCode |-> JStr(<<"1", "0", "0">>), amount |-> JNum(10005)]

BootsItem ==
    [t |-> "obj", mode |-> JStr(<<" ", "B", "o", "o", "t", "s">>), departmentCode |-> JStr(<<"6", "2", "0">>),
     activityCode |-> JStr(<<"1", "0", "0">>), accountCode |-> JStr(<<"5", "6", "0", "0">>), amount |-> JNum(150000),
     receiptUploadId |-> JStr(<<"u", "1", " ">>), authorizationUploadId |-> JStr(<<"u", "2">>)]

ReceiptNoAccount ==
    [t |-> "obj", type |-> JStr(<<"R", "e", "c", "e", "i", "p", "t">>), departmentCode |-> JStr(<<"6", "2", "0">>),
     activityCode |-> JStr(<<"7", "7", "0">>), amount |-> JNum(42500)]

SubmitItemLists ==
    { <<>>, <<ReceiptItem>>, <<UntypedItem>>, <<MileageNoAccount>>, <<BootsItem>>,
      <<ReceiptNoAccount>>, <<UntypedItem, ReceiptItem>> }

SendEmailVals == { JNull, JBool(FALSE), JStr(<<" ", "Y", "e", "s">>), JStr(<<"m", "a", "y", "b", "e">>) }

NoSource == [t |-> "obj"]

ProvidedSource ==
    [t |-> "obj", attachments |-> JList(<<[t |-> "obj", name |-> JStr(<<"r", ".", "p", "d", "f">>)]>>)]

DriveSource ==
    [t |-> "obj", sharepointDriveId |-> JStr(<<"d", "1">>), sharepointItemIds |-> JStr(<<"a", ",", " ", "b">>)]

UrlListSource == [t |-> "obj", sharepointFileUrls |-> JList(<<JStr(<<"h", "t", "t", "p", ":", "/", "/", "x">>), JStr(<<" ">>)>>)]

UrlSource == [t |-> "obj", receiptUrls |-> JStr(<<"h", "t", "t", "p", ":", "/", "/", "x", ",", "h", "t", "t", "p", ":", "/", "/", "y">>)]

UploadSource == [t |-> "obj", receiptUploadId |-> JStr(<<"u", "2">>)]

ThreadSource == [t |-> "obj", threadId |-> JStr(<<"t", "1">>)]

FetchSource == [t |-> "obj", fetchReceiptsFromThread |-> JStr(<<"t", "r", "u", "e">>)]

ReceiptSources ==
    { NoSource, ProvidedSource, DriveSource, UrlListSource, UrlSource, UploadSource,
      ThreadSource, FetchSource }

\* what a builder of attachments returns
Failed(e) == [count |-> 0, bytes |-> 0, zipped |-> FALSE, error |-> e]

Bundle(bytes, zipped) == [count |-> 1, bytes |-> bytes, zipped |-> zipped, error |-> "none"]

\* _build_receipt_attachments for an empty list
NoneBuilt == [count |-> 0, bytes |-> 0, zipped |-> FALSE, error |-> "none"]

\* GRAPH_MAX_ATTACHMENT_BYTES when it is set
LimitGiven == <<" ", "9", "9", " ">>

\* attachments of exactly the size of the limit given
SmallBytes == NatVal(Strip(LimitGiven))

\* every source answers alike but for its error
Services(kind) ==
    CASE kind = "failed" ->
            [built |-> Failed("attachments[0] is empty"),
             sharepoint |-> Failed("Failed to download receipts from SharePoint"),
             blob |-> Failed("No receipts found for upload id"),
             foundry |-> Failed("FOUNDRY_PROJECT_ENDPOINT is not configured")]
      [] kind = "fits" ->
            [built |-> Bundle(SmallBytes, FALSE), sharepoint |-> Bundle(SmallBytes, FALSE),
             blob |-> Bundle(SmallBytes, FALSE), foundry |-> Bundle(SmallBytes, FALSE)]
      [] kind = "over" ->
            [built |-> Bundle(SmallBytes + 1, FALSE), sharepoint |-> Bundle(SmallBytes + 1, FALSE),
             blob |-> Bundle(SmallBytes + 1, FALSE), foundry |-> Bundle(SmallBytes + 1, FALSE)]
      [] kind = "big" ->
            [built |-> Bundle(DefaultMaxAttachmentBytes + 1, FALSE),
             sharepoint |-> Bundle(DefaultMaxAttachmentBytes + 1, TRUE),
             blob |-> Bundle(DefaultMaxAttachmentBytes + 1, TRUE),
             foundry |-> Bundle(DefaultMaxAttachmentBytes + 1, TRUE)]
      [] kind = "none built" ->
            [built |-> NoneBuilt, sharepoint |-> Bundle(SmallBytes, FALSE),
             blob |-> Failed("No receipts found for upload id"),
             foundry |-> Bundle(DefaultMaxAttachmentBytes, TRUE)]

ServiceKinds == { "failed", "fits", "over", "big", "none built" }

\* what _graph_send_mail returns; "none" is None, "raise" an exception of
\* requests.post, which the function does not catch
MailOutcomes == { "none", "Graph sendMail failed", "raise" }

SubmitEnv(enable, from_user, max_bytes, kind, mail, resolve, delete_fail) ==
    [enable |-> enable, mail_to |-> <<>>, from_user |-> from_user, max_bytes |-> max_bytes,
     built |-> Services(kind).built, sharepoint |-> Services(kind).sharepoint,
     blob |-> Services(kind).blob, foundry |-> Services(kind).foundry,
     mail |-> mail, resolve |-> resolve, delete_fail |-> delete_fail]

Sender == <<"b", "o", "t", "@", "c", "o", "r", "e", ".", "c", "o", "o", "p">>

\* an environment in which a requested mail is sent
SendingEnv(kind, mail, resolve, delete_fail) ==
    SubmitEnv(<<"t", "r", "u", "e">>, Sender, <<>>, kind, mail, resolve, delete_fail)

NoQuery == [k \in {} |-> <<>>]

SubmitRequest(p, q, h) ==
    [body |-> "object", parsed |-> p, raw |-> <<>>, query_draft |-> JNull, query |-> q,
     conversation_header |-> h]

\* the request and the environment of a run
Starts(r, env) == req = r /\ d_call = env

Allowing(al) == IF al = JNull THEN NoSource ELSE [t |-> "obj", allowMissingReceipts |-> al]

\* family 1: the gates of the send
GateStart ==
    \E its \in SubmitItemLists, se \in SendEmailVals, al \in { JNull, JBool(TRUE) },
       src \in { NoSource, ProvidedSource, DriveSource },
       en \in { <<" ", "T", "r", "u", "e", " ">>, <<>> }, fu \in { <<>>, Sender }, mb \in { <<>>, LimitGiven },
       kind \in ServiceKinds, mail \in MailOutcomes :
        Starts(SubmitRequest(With(With(src, [items |-> JList(its), sendEmail |-> se]),
                                  Allowing(al)),
                             NoQuery, <<>>),
               SubmitEnv(en, fu, mb, kind, mail, "ok", 0))

PurgeVals == { JNull, JBool(TRUE), JStr(<<"y", "e", "s">>), JBool(FALSE) }

PurgeQueries ==
    { NoQuery,
      [purgeSharepointReceipts |-> <<"1">>, sharepointFileUrls |-> <<"h", "t", "t", "p", ":", "/", "/", "q">>],
      [sendEmail |-> <<"n", "o">>, allowMissingReceipts |-> <<"Y">>] }

\* family 2: the purge after the send
PurgeStart ==
    \E its \in { <<ReceiptItem>>, <<UntypedItem>> }, pg \in PurgeVals,
       src \in { NoSource, DriveSource, UrlListSource, UrlSource },
       q \in PurgeQueries, kind \in { "failed", "fits" }, mail \in MailOutcomes,
       resolve \in { "ok", "raise" }, delete_fail \in 0..2 :
        Starts(SubmitRequest(With(With(src, [items |-> JList(its)]),
                                  IF pg = JNull THEN NoSource
                                  ELSE [t |-> "obj", purgeSharepointReceipts |-> pg]),
                             q, <<>>),
               SendingEnv(kind, mail, resolve, delete_fail))

\* family 3: the sources of the receipts
SourceStart ==
    \E its \in { <<ReceiptItem>>, <<BootsItem>>, <<UntypedItem>> },
       al \in { JNull, JStr(<<"1">>) }, src \in ReceiptSources,
       q \in { NoQuery, [receiptUploadId |-> <<"u", "9">>, sendEmail |-> <<"T", "R", "U", "E">>] },
       h \in { <<>>, <<" ", "c", "o", "n", "v", "1">> }, kind \in ServiceKinds :
        Starts(SubmitRequest(With(With(src, [items |-> JList(its)]), Allowing(al)), q, h),
               SendingEnv(kind, "none", "ok", 0))

\* family 4: the bodies that are no JSON object, and draftItemsJson
BodyStart ==
    \E r \in OtherRequests
              \cup { ObjectRequest(p) : p \in HolderPayloads }
              \cup { [body |-> "invalid", parsed |-> JNull, raw |-> <<"[", "{", ".", ".", ".", "}", "]">>,
                      query_draft |-> JNull] },
       q \in { NoQuery, [sendEmail |-> <<"0">>], [toEmail |-> <<"a", "p", "@", "c", "o", "r", "e", ".", "c", "o", "o", "p">>] },
       en \in { <<"1">>, <<"o", "f", "f">> }, mail \in MailOutcomes :
        Starts([body |-> r.body, parsed |-> r.parsed, raw |-> r.raw,
                query_draft |-> r.query_draft, query |-> q, conversation_header |-> <<>>],
               SubmitEnv(en, Sender, <<>>, "fits", mail, "ok", 0))

SubmitInit ==
    /\ GateStart \/ PurgeStart \/ SourceStart \/ BodyStart
    /\ clock_today = Today0
    /\ pc = "call"
    /\ rows = <<>>
    /\ raised = FALSE
    /\ csv_text = <<>>
    /\ status = 0
    /\ line_count = 0
    /\ missing_gl_count = 0
    /\ amount_total = 0
    /\ RefIdle
    /\ ledger = MissingFile
    /\ env_overrides = UnsetEnv
    /\ ROWS = NoneSlot
    /\ DEPT_ENTRIES = NoneSlot
    /\ DEPT_EMAIL_OVERRIDES = NoneSlot
    /\ load_count = NoLoads
    /\ d_pc = "idle"
    /\ d_ret = [op |-> "none"]
    /\ th = <<>>

\* the handler raised before it built its response
Unanswered(calls) ==
    [raised |-> TRUE, calls |-> calls, response |-> JNull, purge_error |-> "none"]

\* submit_report, the whole handler: the exception of _iter_import_rows
\* (line 3123) and that of _graph_send_mail (line 3367) are not caught, and
\* the response is then a 500 without the JSON of line 3386
SubmitReport ==
    /\ pc = "call"
    /\ pc' = "submit_report"
    /\ \E payload \in {MergedPayload(req)} :
       \E out \in {IterImportRows(payload, clock_today)} :
           /\ rows' = out.rows
           /\ raised' = out.raised
           /\ csv_text' = IF out.raised THEN <<>> ELSE CsvText(out.rows)
           /\ line_count' = Len(out.rows)
           /\ missing_gl_count' = MissingGlCount(out.rows)
           /\ amount_total' = AmountTotal(out.rows)
           /\ IF out.raised
              THEN /\ status' = 500
                   /\ d_ret' = Unanswered(<<>>)
              ELSE \E res \in {SubmitOutcome(payload, out.rows, d_call)} :
                       /\ status' = IF res.raised THEN 500 ELSE 200
                       /\ d_ret' = res
    /\ UNCHANGED <<req, clock_today>>
    /\ UNCHANGED refVars
    /\ UNCHANGED <<ledger, env_overrides, ROWS, DEPT_ENTRIES, DEPT_EMAIL_OVERRIDES,
                   load_count, d_pc, d_call, th>>

SubmitNext == SubmitReport

SpecSubmit == SubmitInit /\ [][SubmitNext]_vars

----------------------------------------------------------------------------
(* Properties of submit_report *)

\* submit_report has run
SubmitDone == pc = "submit_report"

\* submit_report returned the JSON response of line 3386
SubmitAnswered == SubmitDone /\ ~d_ret.raised

\* the positions of the calls of one kind in the calls the handler made
CallsOf(kind) == { i \in 1..Len(d_ret.calls) : d_ret.calls[i].call = kind }

FetchKinds ==
    { "build_receipt_attachments", "download_receipts_from_sharepoint",
      "download_receipts_from_blob", "build_receipts_zip_from_foundry" }

\* what the service behind a call returned in this run
ReturnedBy(kind) ==
    CASE kind = "build_receipt_attachments" -> d_call.built
      [] kind = "download_receipts_from_sharepoint" -> d_call.sharepoint
      [] kind = "download_receipts_from_blob" -> d_call.blob
      [] kind = "build_receipts_zip_from_foundry" -> d_call.foundry

\* the bytes of the attachments of the last source asked, 0 when none was
AttachedBytes ==
    LET asked == { i \in 1..Len(d_ret.calls) : d_ret.calls[i].call \in FetchKinds }
    IN  IF asked = {} THEN 0
        ELSE ReturnedBy(d_ret.calls[CHOOSE i \in asked : \A j \in asked : j <= i].call).bytes

\* the request asks for the email: sendEmail is true or absent
SendRequested == PayloadBool(MergedPayload(req), "sendEmail", TRUE)

\* ENABLE_EMAIL_SEND is true
SendEnabled == Lower(Strip(d_call.enable)) \in TrueWords

\* fromUser of the payload or MAIL_FROM_USER
FromUserConfigured ==
    Strip(PyStr(FirstTruthy(MergedPayload(req), <<"fromUser">>, JStr(d_call.from_user)))) /= <<>>

\* every gate of the send holds
GatesHold ==
    /\ SendRequested
    /\ SendEnabled
    /\ FromUserConfigured
    /\ \A i \in 1..Len(rows) : Strip(rows[i]["GL Account"]) /= <<>>
    /\ AttachedBytes <= MaxAttachmentBytes(d_call)
    /\ \A i \in 1..Len(d_ret.calls) :
          d_ret.calls[i].call \in FetchKinds => ReturnedBy(d_ret.calls[i].call).error = "none"
    /\ ~(/\ HasReceipts(MergedPayload(req))
         /\ AttachedBytes = 0
         /\ ~PayloadBool(MergedPayload(req), "allowMissingReceipts", FALSE))

\* C28: a body that is no JSON is taken as draftItemsJson, the other fields
\* come from the query string, and the handler answers with its JSON
\* response (status 200, lineCount, ok, emailError), not with an exception.
C28_RawBodyAnswered ==
    SubmitDone /\ req.body = "invalid" =>
        /\ Strip(req.raw) /= <<>> =>
              Get(MergedPayload(req), "draftItemsJson").s = Strip(req.raw)
        /\ \A k \in DOMAIN req.query :
              Get(MergedPayload(req), k) /= JNull
        /\ status = 200
        /\ ~d_ret.raised
        /\ d_ret.response.lineCount = Len(rows)

\* C25: sendMail is called, and sent is true, only for a payload without a
\* receipt or boots item, or with an attachment built, or with
\* allowMissingReceipts true.
C25_NoSendWithoutReceipts ==
    SubmitDone =>
        /\ \A i \in CallsOf("graph_send_mail") :
              \/ ~HasReceipts(MergedPayload(req))
              \/ d_ret.calls[i].attachments > 0
              \/ PayloadBool(MergedPayload(req), "allowMissingReceipts", FALSE)
        /\ SubmitAnswered /\ d_ret.response.sent =>
              /\ CallsOf("graph_send_mail") /= {}
              /\ d_call.mail = "none"
              /\ d_ret.response.attachmentCount > 0
                 \/ ~HasReceipts(MergedPayload(req))
                 \/ PayloadBool(MergedPayload(req), "allowMissingReceipts", FALSE)

\* a report with a receipt item was sent with its receipts attached, and
\* another without receipts because the payload allowed it
C25_Witness ==
    /\ SubmitAnswered
    /\ d_ret.response.sent
    /\ HasReceipts(MergedPayload(req))
    /\ \/ d_ret.response.attachmentCount > 0
          /\ ~PayloadBool(MergedPayload(req), "allowMissingReceipts", FALSE)
       \/ d_ret.response.attachmentCount = 0
          /\ PayloadBool(MergedPayload(req), "allowMissingReceipts", FALSE)

\* sendMail is called only when every gate holds, and an answered request
\* whose gates do not all hold has sent false and, when the email was
\* requested, ok false and emailError set
GatesOfAnswered ==
    /\ SubmitDone /\ CallsOf("graph_send_mail") /= {} => GatesHold
    /\ SubmitAnswered /\ ~GatesHold =>
          /\ ~d_ret.response.sent
          /\ SendRequested => ~d_ret.response.ok /\ d_ret.response.emailError /= "none"
          /\ ~SendRequested => d_ret.response.ok

\* C26: sendMail is called only when sendEmail is requested,
\* ENABLE_EMAIL_SEND is true, a from-user is configured, no row has an empty
\* GL Account, the attachments fit GRAPH_MAX_ATTACHMENT_BYTES and no earlier
\* step recorded an error; in every other case the response has sent false
\* and, when the email was requested, ok false and emailError set.
C26_SendOnlyThroughGates ==
    /\ SubmitDone /\ CallsOf("graph_send_mail") /= {} => GatesHold
    /\ SubmitDone /\ ~GatesHold =>
          /\ status = 200
          /\ ~d_ret.raised
          /\ ~d_ret.response.sent
          /\ SendRequested => ~d_ret.response.ok /\ d_ret.response.emailError /= "none"

\* C27: a DELETE of a SharePoint item is issued only after the call of
\* sendMail, only when that call succeeded and purgeSharepointReceipts is
\* true; a purge that fails leaves sent true and ok true.
C27_PurgeOnlyAfterSend ==
    SubmitDone =>
        /\ \A i \in CallsOf("graph_delete") :
              /\ \E j \in CallsOf("graph_send_mail") : j < i
              /\ d_call.mail = "none"
              /\ PayloadBool(MergedPayload(req), "purgeSharepointReceipts", FALSE)
              /\ SubmitAnswered
              /\ d_ret.response.sent
        /\ SubmitAnswered /\ d_ret.purge_error /= "none" =>
              d_ret.response.sent /\ d_ret.response.ok /\ d_ret.response.emailError = "none"

\* the email was sent, a first DELETE went through and the second failed
C27_Witness ==
    /\ SubmitAnswered
    /\ d_ret.response.sent
    /\ d_ret.response.ok
    /\ Cardinality(CallsOf("graph_delete")) = 2
    /\ d_ret.purge_error /= "none"

====
